---- MODULE Spec2Model ----
(***************************************************************************)
(* A model of the durable graph execution demonstrated by the tutorial     *)
(* scripts of learn-langGraph: node functions and graph wiring are taken   *)
(* from the scripts; the executor that walks a graph (the langgraph        *)
(* library the scripts call) is modelled from the step algorithm of the    *)
(* specification and from the scripts' own notes about it.                 *)
(***************************************************************************)
EXTENDS Integers, Sequences, FiniteSets, TLC

VARIABLES
    graph,        \* which script's compiled graph the thread runs
    durability,   \* the durability tier of the invocation
    status,       \* PENDING | RUNNING | COMPLETED | INTERRUPTED | FAILED
    state,        \* the in-memory state of the thread
    active,       \* the nodes of the current step
    attempts,     \* per active node: attempts made in the current step
    writes,       \* results collected in the current step, in completion order
    resume,       \* the resume value injected into the interrupted node
    store,        \* the thread's completed checkpoint saves, oldest first
    inflight,     \* saves issued under "async" that have not completed yet
    result,       \* what the last invocation returned to its caller
    fail_once,    \* 02-graph-patterns/retry.py: the module's global flag
    stepsDone,    \* number of steps completed on the thread
    log,          \* history: every node attempt, in order
    merged,       \* history: the nodes whose update was merged, in order
    calls,        \* history: the invoke calls made on the thread, in order
    runSaves,     \* history: checkpoint saves issued by the current invocation
    trace,        \* history: every completed step, in order
    events,       \* history: the events the invocations' streams emitted
    collection,   \* MongoDBCheckpointSaver: the documents, in natural order
    nextOid,      \* MongoDBCheckpointSaver: the next ObjectId the server gives
    returned,     \* history: the ids put has returned, with their thread
    lastOp,       \* history: the last checkpointer call and what it returned
    schema,       \* state container: the state schema the merges are made under
    initial,      \* state container: the state before any update
    current,      \* state container: the state after the updates so far
    applied,      \* history: the updates merged into current, in order
    script,       \* long-term memory: which script's memory_node runs
    items,        \* long-term memory: the InMemoryStore's items, oldest first
    vector,       \* long-term memory: the Chroma collection's documents
    memory_context, \* long-term memory: what memory_node returned last
    remembered    \* history: the namespace and text of each memory_node run

vars == <<graph, durability, status, state, active, attempts, writes, resume,
          store, inflight, result, fail_once, stepsDone, log, merged, calls,
          runSaves, trace, events, collection, nextOid, returned, lastOp, schema,
          initial, current, applied, script, items, vector, memory_context,
          remembered>>

engineVars == <<graph, durability, status, state, active, attempts, writes,
                resume, store, inflight, result, fail_once, stepsDone, log,
                merged, calls, runSaves, trace, events>>

storeVars == <<collection, nextOid, returned, lastOp>>

mergeVars == <<schema, initial, current, applied>>

memoryVars == <<script, items, vector, memory_context, remembered>>

(***************************************************************************)
(* Bounds of the model.                                                    *)
(***************************************************************************)
MaxNumber == 3

MaxCalls == 3

\* the number of replays made on the thread
MaxReplays == 1

\* the number of updates merged into one state
MaxUpdates == 3

\* the largest message id a caller chooses itself
MaxCallerId == 2

(***************************************************************************)
(* Values shared by the scripts.                                           *)
(***************************************************************************)
END == "__end__"

NoValue == "<none>"

NoKey == "<bare>"

NoId == 0

Update(u) == [kind |-> "update", update |-> u]

Command(u, g) == [kind |-> "command", update |-> u, goto |-> g]

InterruptSignal(p) == [kind |-> "interrupt", payload |-> p]

Raise(e) == [kind |-> "raise", exc |-> e]

\* langgraph.types.interrupt: suspends the node unless a resume value is
\* injected, in which case the call returns that value.
interrupt(payload, rv) ==
    IF rv = NoValue
    THEN [suspended |-> TRUE, payload |-> payload]
    ELSE [suspended |-> FALSE, value |-> rv]

(***************************************************************************)
(* graph_human_in_loop/interrupt.py                                        *)
(***************************************************************************)
InterruptPrompt == "Do you want to go to C or D? Type C/D"

node_a(s) == Command([value |-> Append(s.value, "a")], {"node_b"})

node_b_no_interrupt(s, rv) ==
    LET next_node == IF rv = "C" THEN "node_c" ELSE "node_d"
    IN  Command([value |-> Append(s.value, "b")], {next_node})

node_b_goto_a(s, rv) ==
    LET human_response == interrupt(InterruptPrompt, rv)
    IN  IF human_response.suspended
        THEN InterruptSignal(human_response.payload)
        ELSE Command([value |-> Append(s.value, "b")], {"node_a"})

\* A node_b that goes on to node_c whatever the human answered.
node_b_always_c(s, rv) ==
    LET human_response == interrupt(InterruptPrompt, rv)
    IN  IF human_response.suspended
        THEN InterruptSignal(human_response.payload)
        ELSE Command([value |-> Append(s.value, "b")], {"node_c"})

node_b(s, rv) ==
    LET human_response == interrupt(InterruptPrompt, rv)
    IN  IF human_response.suspended
        THEN InterruptSignal(human_response.payload)
        ELSE LET next_node == IF human_response.value = "C"
                              THEN "node_c" ELSE "node_d"
             IN  Command([value |-> Append(s.value, "b")], {next_node})

node_c(s) == Command([value |-> Append(s.value, "c")], {END})

node_d(s) == Command([value |-> Append(s.value, "d")], {END})

(***************************************************************************)
(* 02-graph-patterns/retry.py                                              *)
(***************************************************************************)
print_node_resets(s) == Update([number |-> 0])

print_node(s) == Update(<<>>)

decrement_node_keeps_flag(s, fo) ==
    IF fo
    THEN [res |-> Raise("ValueError"), fail_once |-> fo]
    ELSE [res |-> Update([number |-> s.number - 1]), fail_once |-> fo]

decrement_node(s, fo) ==
    IF fo
    THEN [res |-> Raise("ValueError"), fail_once |-> FALSE]
    ELSE [res |-> Update([number |-> s.number - 1]), fail_once |-> fo]

\* A check_node that also stops below zero.
check_node_stops_below_zero(s) == IF s.number <= 0 THEN "stop" ELSE "loop"

check_node(s) == IF s.number = 0 THEN "stop" ELSE "loop"

MaxAttempts02 == 3

retry_policy == [max_attempts |-> MaxAttempts02, retry_on |-> {"Exception"}]

(***************************************************************************)
(* graph_patterns/retry.py                                                 *)
(***************************************************************************)
\* db.run is an external call: it returns rows or raises.
DbOutcomes == {"ok", "sqlite3.OperationalError", "RuntimeError"}

\* The chat model call is an external call: it answers or raises.  (As
\* written the script binds `modal` and calls `model`, so the call raises
\* NameError on every attempt; that is the behaviour in which every attempt
\* draws "Exception".)
LlmOutcomes == {"ok", "Exception"}

AIMessage(content) == [id |-> NoId, content |-> content]

HumanMessage(content) == [id |-> NoId, content |-> content]

query_database(s, out) ==
    IF out = "ok"
    THEN Update([messages |-> <<AIMessage("rows")>>])
    ELSE Raise(out)

call_model(s, out) ==
    IF out = "ok"
    THEN Update([messages |-> <<AIMessage("response")>>])
    ELSE Raise(out)

DefaultMaxAttempts == 3

MaxAttemptsModel == 5

query_database_policy_any ==
    [max_attempts |-> DefaultMaxAttempts, retry_on |-> {"Exception"}]

query_database_policy ==
    [max_attempts |-> DefaultMaxAttempts,
     retry_on |-> {"sqlite3.OperationalError"}]

model_policy == [max_attempts |-> MaxAttemptsModel, retry_on |-> {"Exception"}]

(***************************************************************************)
(* graph_basics/graph_api/durability.py                                    *)
(***************************************************************************)
ApiOutcomes == {"ok", "RequestException"}

call_api(s, out) ==
    IF out = "ok" THEN Update([result |-> "body"]) ELSE Raise(out)

\* graph_patterns/sequential.py
\* An initialize step that builds on the value the caller passed in.
initialize_node_adds(s) == Update([value |-> s.value + 1])

initialize_node(s) == Update([value |-> 1])

increment_node(s) == Update([value |-> s.value + 1])

double_node(s) == Update([value |-> s.value * 2])

\* 01-graph-basics/graph-api/edge.py and graph_basics/graph_api/graph.py: a
\* message is a str, modelled as the tuple of its pieces so that an f-string
\* is a concatenation.
Greeting == <<"Hello! How can I assist you today?">>

UserQuery == <<"I need to search for information about LangChain.">>

greet_node(s) == Update([messages |-> <<Greeting>>])

search_node(s) ==
    LET user_query == IF s.messages # <<>> THEN s.messages[Len(s.messages)]
                      ELSE <<>>
        search_result == <<"Searching for: '">> \o user_query \o <<"'...">>
    IN  Update([messages |-> <<search_result>>])

\* 11-graph-rag/market_stock_agent.py: the node returns the whole list it
\* was given plus the model's response.
llm_node(s) == Update([messages |-> s.messages \o <<AIMessage("response")>>])

(***************************************************************************)
(* 08-graph-human-in-loop/interrupt_before.py                              *)
(***************************************************************************)
\* The bound chat model answers in text or asks for a tool call.
ToolLlmOutcomes == {"answer", "tool_calls"}

\* An AIMessage of a model that has tools bound: it carries its tool calls.
AIMessageWithTools(content, requested) ==
    [id |-> NoId, content |-> content, tool_calls |-> requested]

\* A ToolMessage: the string a tool returned for one tool call.
ToolMessage(content) == [id |-> NoId, content |-> content]

\* llm.invoke(state["messages"]) of a model bound to tool `name`.
llm_invoke(name, out) ==
    IF out = "tool_calls"
    THEN AIMessageWithTools("", <<name>>)
    ELSE AIMessageWithTools("answer", <<>>)

interrupt_before_model(s, out) ==
    Update([messages |-> <<llm_invoke("save", out)>>])

\* hasattr(m, "tool_calls") and len(m.tool_calls) > 0
HasToolCalls(m) == "tool_calls" \in DOMAIN m /\ Len(m.tool_calls) > 0

\* The router returning the name the tool node was registered under.
tools_router_names_node(s) ==
    LET last_message == s.messages[Len(s.messages)]
    IN  IF HasToolCalls(last_message) THEN "tool_node" ELSE END

tools_router(s) ==
    LET last_message == s.messages[Len(s.messages)]
    IN  IF HasToolCalls(last_message) THEN "tools" ELSE END

\* The tool writes the file or catches the error; it returns a string
\* either way.
save(out) ==
    IF out = "saved"
    THEN "Document has been saved successfully to '<filename>'."
    ELSE "Error saving document: <e>"

\* ToolNode(tools): one ToolMessage for the tool call of the last message.
tool_node(s, out) == Update([messages |-> <<ToolMessage(save(out))>>])

(***************************************************************************)
(* 08-graph-human-in-loop/multiturn.py                                     *)
(***************************************************************************)
\* str.lower() on the feedback strings a caller resumes with.
lower(x) == IF x = "Done" THEN "done" ELSE x

multiturn_model(s, out) ==
    LET feedback == s.human_feedback
    IN  Update([generated_post |-> <<AIMessage("post")>>,
                human_feedback |-> feedback])

human_node(s, rv) ==
    LET user_feedback == interrupt([generated_post |-> s.generated_post,
                                    message |-> "Provide feedback or type 'done' to finish"],
                                   rv)
    IN  IF user_feedback.suspended
        THEN InterruptSignal(user_feedback.payload)
        ELSE IF lower(user_feedback.value) = "done"
        THEN Command([human_feedback |->
                          s.human_feedback \o <<HumanMessage("Finalised")>>],
                     {"end_node"})
        ELSE Command([human_feedback |->
                          s.human_feedback \o <<HumanMessage(user_feedback.value)>>],
                     {"model"})

end_node(s) ==
    Update([generated_post |-> s.generated_post,
            human_feedback |-> s.human_feedback])

(***************************************************************************)
(* graph_patterns/looping.py                                               *)
(***************************************************************************)
\* random.randint(1, 10) draws from 1..10; the model draws from 1..MaxRandom.
MaxRandom == 2

LoopLimit == 5

\* Both nodes assign into the state they were given and return all of it.
greeting_node(s) ==
    Update([s EXCEPT !.name = <<"Hey ">> \o @ \o <<", how is your day going?">>,
                     !.counter = 0])

random_number_node(s, out) ==
    Update([s EXCEPT !.numbers = Append(@, out), !.counter = @ + 1])

\* The router with the loop's bound included.
should_continue_node_inclusive(s) ==
    IF s.counter <= LoopLimit THEN "continue_edge" ELSE "finish_edge"

should_continue_node(s) ==
    IF s.counter < LoopLimit THEN "continue_edge" ELSE "finish_edge"

\* lambda state: state
should_continue_router(s) == Update(s)

(***************************************************************************)
(* graph_patterns/conditional.py                                           *)
(***************************************************************************)
add_node(s) == Update([s EXCEPT !.result = s.number_1 + s.number_2])

subtract_node(s) == Update([s EXCEPT !.result = s.number_1 - s.number_2])

multiply_node(s) == Update([s EXCEPT !.result = s.number_1 * s.number_2])

\* A router that raises instead of returning a label.
RouterRaises(e) == IF e = "ValueError" THEN "<ValueError>" ELSE "<Exception>"

route_operation(s) ==
    LET op == s.operation
    IN  CASE op = "+" -> "add"
          [] op = "-" -> "subtract"
          [] op = "*" -> "multiply"
          [] OTHER    -> RouterRaises("ValueError")

\* lambda state: state
router(s) == Update(s)

(***************************************************************************)
(* 01-graph-basics/graph-api/edge.py, graph_basics/graph_api/graph.py      *)
(***************************************************************************)
\* "search" in piece.lower(), for the pieces the messages are made of.
HasSearch(piece) ==
    piece \in {"I need to search for information about LangChain.",
               "Searching for: '"}

decide_next_node(s) ==
    LET last_message == IF s.messages # <<>> THEN s.messages[Len(s.messages)]
                        ELSE <<>>
    IN  IF \E i \in 1..Len(last_message) : HasSearch(last_message[i])
        THEN "search" ELSE END

(***************************************************************************)
(* 03-graph-streaming/stream_events.py                                     *)
(***************************************************************************)
\* get_weather catches every error of its requests: it returns a string.
get_weather(out) ==
    CASE out = "temperature" -> "The current temperature in <city> is <temp>C."
      [] out = "not found"   -> "City '<city>' not found."
      [] OTHER               -> "Error fetching weather: <e>"

llm_processor_node(s, out) ==
    Update([messages |-> <<llm_invoke("get_weather", out)>>])

\* A routing function that continues when no tool was asked for.
should_continue_node_inverted(s) ==
    LET last_message == s.messages[Len(s.messages)]
    IN  IF HasToolCalls(last_message) THEN "end" ELSE "continue"

stream_should_continue_node(s) ==
    LET last_message == s.messages[Len(s.messages)]
    IN  IF HasToolCalls(last_message) THEN "continue" ELSE "end"

\* ToolNode(tools=tool_list)
tool_nodes(s, out) == Update([messages |-> <<ToolMessage(get_weather(out))>>])


(***************************************************************************)
(* graph_patterns/parallel.py.  A node is handed its own copy of the       *)
(* step's state snapshot, sets one key in it and returns the whole of it.  *)
(***************************************************************************)
set_a(s) == Update([s EXCEPT !.a = 2])

set_b(s) == Update([s EXCEPT !.b = 3])

aggregate(s) == Update([s EXCEPT !.sum = s.a + s.b])

\* A routing function that starts one of the two branches.
run_parallel_first_only(s) == <<"set_a">>

run_parallel(s) == <<"set_a", "set_b">>

(***************************************************************************)
(* graph_tools/custom_tool_node.py, graph_tools/build_in_tool_node.py and  *)
(* graph_streaming/astream_events.py                                       *)
(***************************************************************************)
\* The chat model asks for at most MaxToolCalls tools in one response.
MaxToolCalls == 2

\* tools_dict = {tool.name: tool for tool in tool_list}
tools_dict == {"add", "get_weather", "get_users"}

\* The tool names a response can ask for: registered ones and one that is not.
RequestedLists ==
    UNION {[1..k -> {"add", "get_users", "search"}] : k \in 0..MaxToolCalls}

\* llm.invoke of the model bound to tool_list: the response with its tool
\* calls, each with its name and its id.
llm_response(names) ==
    AIMessageWithTools(IF names = <<>> THEN "answer" ELSE "",
                       [i \in 1..Len(names) |-> [name |-> names[i], id |-> i]])

\* llm_processor_node of custom_tool_node.py and build_in_tool_node.py: the
\* response is appended to the list of the state and the state returned.
llm_processor_node_appends(s, out) ==
    Update([messages |-> Append(s.messages, llm_response(out))])

\* A tool node that gives up at the first tool it does not know.
custom_tool_node_stops_at_unknown(s, out) ==
    LET tool_calls == s.messages[Len(s.messages)].tool_calls
        known == {i \in 1..Len(tool_calls) :
                     \A j \in 1..i : tool_calls[j].name \in tools_dict}
    IN  Update([messages |->
                   [i \in 1..Cardinality(known) |->
                       [id |-> NoId, tool_call_id |-> tool_calls[i].id,
                        name |-> tool_calls[i].name,
                        content |-> IF out[i] = "raise"
                                    THEN "Error executing tool '<name>': <e>"
                                    ELSE "<result>"]]])

\* custom_tool_node.py's tool_node; out[i] is what invoking the tool of the
\* i-th call does.
custom_tool_node(s, out) ==
    LET tool_calls == s.messages[Len(s.messages)].tool_calls
    IN  Update([messages |->
                   [i \in 1..Len(tool_calls) |->
                       LET t == tool_calls[i]
                           text == IF t.name \notin tools_dict
                                   THEN "Tool '<name>' does not exist."
                                   ELSE IF out[i] = "raise"
                                   THEN "Error executing tool '<name>': <e>"
                                   ELSE "<result>"
                       IN  [id |-> NoId, tool_call_id |-> t.id,
                            name |-> t.name, content |-> text]]])

(***************************************************************************)
(* graph_persistence/short_term_memory/inmemorysaver_checkpointer.py and   *)
(* mongodb_checkpointer.py: the chat node appends the response to the      *)
(* list it was given and returns the whole list.                           *)
(***************************************************************************)
llm_chat_node(s, out) ==
    IF out = "ok"
    THEN Update([messages |-> Append(s.messages, AIMessage("response"))])
    ELSE Raise(out)

(***************************************************************************)
(* The graphs the scripts build.                                           *)
(***************************************************************************)
Graphs == {"interrupt", "retry02", "retrydb", "durability"}

(***************************************************************************)
(* graph_multiagent/supervisor_multiagent.py: a supervisor, three workers  *)
(* and a validator, each returning a Command.                              *)
(***************************************************************************)
\* HumanMessage(content=..., name=...)
NamedMessage(content, name) == [id |-> NoId, content |-> content, name |-> name]

\* Supervisor.next and Validator.next: the Literal values of the two schemas.
SupervisorNext == {"enhancer", "researcher", "coder"}

ValidatorNext == {"supervisor", "FINISH"}

supervisor_node(s, out) ==
    LET goto == out
        reason == "reason"
    IN  Command([messages |-> <<NamedMessage(reason, "supervisor")>>], {goto})

enhancer_node(s, out) ==
    Command([messages |-> <<NamedMessage(out, "enhancer")>>], {"supervisor"})

\* A researcher that hands its findings back to the supervisor.
research_node_to_supervisor(s, out) ==
    Command([messages |-> <<NamedMessage(out, "researcher")>>], {"supervisor"})

research_node(s, out) ==
    Command([messages |-> <<NamedMessage(out, "researcher")>>], {"validator"})

code_node(s, out) ==
    Command([messages |-> <<NamedMessage(out, "coder")>>], {"validator"})

validator_node(s, out) ==
    LET goto == IF out = "FINISH" THEN END ELSE out
        reason == "reason"
    IN  Command([messages |-> <<NamedMessage(reason, "validator")>>], {goto})

\* The graphs of the scripts that show one pattern of wiring each.
Patterns == {"interrupt_before", "multiturn", "looping", "sequential", "edge",
             "conditional", "stream_events"}

Scripts == Graphs \cup Patterns

Range(f) == {f[i] : i \in DOMAIN f}

\* The graphs of the scripts that build an application: a fan-out, a chat
\* with a checkpointer, two tool agents and a supervisor with its workers.
Apps == {"parallel", "chat", "chat_mongo", "custom_tool_node",
         "build_in_tool_node", "astream_events", "supervisor"}

\* The graphs of a chat model and a tool node that answers it.
ToolAgents == {"custom_tool_node", "build_in_tool_node", "astream_events",
               "stream_events"}

\* inmemorysaver_checkpointer.py compiles the chat graph with the library's
\* InMemorySaver, mongodb_checkpointer.py with its MongoDBCheckpointSaver.
ChatGraphs == {"chat", "chat_mongo"}

\* add_node, in registration order
Nodes(g) ==
    CASE g = "interrupt"  -> <<"node_a", "node_b", "node_c", "node_d">>
      [] g = "retry02"    -> <<"print_node", "decrement_node">>
      [] g = "retrydb"    -> <<"query_database", "model">>
      [] g = "durability" -> <<"call_api">>
      [] g = "interrupt_before" -> <<"model", "tool_node">>
      [] g = "multiturn"  -> <<"model", "human_node", "end_node">>
      [] g = "looping"    -> <<"greeting_node", "random_number_node",
                               "should_continue_router">>
      [] g = "sequential" -> <<"initialize", "increment", "double">>
      [] g = "edge"       -> <<"greet", "search">>
      [] g = "conditional" -> <<"add", "subtract", "multiply", "router">>
      [] g = "stream_events" -> <<"llm_processor_node", "tool_nodes">>
      [] g = "parallel"   -> <<"set_a", "set_b", "aggregate", "aggregate_start">>
      [] g \in ChatGraphs       -> <<"llm_chat_node">>
      [] g = "custom_tool_node" -> <<"llm_processor_node", "tool_node">>
      [] g \in {"build_in_tool_node", "astream_events"} ->
             <<"llm_processor_node", "tool_nodes">>
      [] g = "supervisor" -> <<"supervisor", "enhancer", "researcher",
                               "coder", "validator">>

\* set_entry_point / add_edge(START, n)
EntryNodes(g) ==
    CASE g = "interrupt"  -> {"node_a"}
      [] g = "retry02"    -> {"print_node"}
      [] g = "retrydb"    -> {"model"}
      [] g = "durability" -> {"call_api"}
      [] g = "interrupt_before" -> {"model"}
      [] g = "multiturn"  -> {"model"}
      [] g = "looping"    -> {"greeting_node"}
      [] g = "sequential" -> {"initialize"}
      [] g = "edge"       -> {"greet"}
      [] g = "conditional" -> {"router"}
      [] g = "stream_events" -> {"llm_processor_node"}
      [] g = "parallel"   -> {"aggregate_start"}
      [] g \in ChatGraphs       -> {"llm_chat_node"}
      [] g \in ToolAgents       -> {"llm_processor_node"}
      [] g = "supervisor"       -> {"supervisor"}

\* add_edge(src, dst) and set_finish_point(src), START edges excluded
DirectEdges(g) ==
    CASE g = "interrupt"  -> {}
      [] g = "retry02"    -> {<<"decrement_node", "print_node">>}
      [] g = "retrydb"    -> {<<"model", "query_database">>,
                              <<"query_database", END>>}
      [] g = "durability" -> {<<"call_api", END>>}
      [] g = "interrupt_before" -> {<<"tool_node", "model">>}
      [] g = "multiturn"  -> {<<"model", "human_node">>,
                              <<"human_node", "model">>,
                              <<"end_node", END>>}
      [] g = "looping"    -> {<<"greeting_node", "random_number_node">>,
                              <<"random_number_node", "should_continue_router">>}
      [] g = "sequential" -> {<<"initialize", "increment">>,
                              <<"increment", "double">>,
                              <<"double", END>>}
      [] g = "edge"       -> {<<"search", END>>}
      [] g = "conditional" -> {<<"add", END>>, <<"subtract", END>>,
                               <<"multiply", END>>}
      [] g = "stream_events" -> {<<"tool_nodes", "llm_processor_node">>}
      [] g = "parallel"   -> {<<"set_a", "aggregate">>, <<"set_b", "aggregate">>,
                              <<"aggregate", END>>}
      [] g \in ChatGraphs       -> {<<"llm_chat_node", END>>}
      [] g = "custom_tool_node" -> {<<"tool_node", "llm_processor_node">>}
      [] g \in {"build_in_tool_node", "astream_events"} ->
             {<<"tool_nodes", "llm_processor_node">>}
      [] g = "supervisor" -> {}

\* add_conditional_edges(src, router, mapping)
ConditionalSources(g) ==
    CASE g = "retry02"          -> {"print_node"}
      [] g = "interrupt_before" -> {"model"}
      [] g = "looping"          -> {"should_continue_router"}
      [] g = "edge"             -> {"greet"}
      [] g = "conditional"      -> {"router"}
      [] g = "stream_events"    -> {"llm_processor_node"}
      [] g = "parallel"         -> {"aggregate_start"}
      [] g \in ToolAgents       -> {"llm_processor_node"}
      [] OTHER                  -> {}

Router(g, n, s) ==
    CASE g = "retry02" /\ n = "print_node" -> check_node(s)
      [] g = "interrupt_before" /\ n = "model" -> tools_router(s)
      [] g = "looping" /\ n = "should_continue_router" -> should_continue_node(s)
      [] g = "edge" /\ n = "greet" -> decide_next_node(s)
      [] g = "conditional" /\ n = "router" -> route_operation(s)
      [] g = "stream_events" /\ n = "llm_processor_node" ->
             stream_should_continue_node(s)
      [] g = "parallel" /\ n = "aggregate_start" -> run_parallel(s)
      [] g \in ToolAgents /\ n = "llm_processor_node" ->
             stream_should_continue_node(s)
      [] OTHER -> NoValue

\* The labels a routing function returned: the members of a list, or the one
\* value.
RouterLabels(g, n, s) ==
    IF g = "parallel" THEN Range(Router(g, n, s)) ELSE {Router(g, n, s)}

\* A conditional edge added without a mapping takes the router's value as
\* the destination's own name.
NoMapping(g) == [d \in {Nodes(g)[i] : i \in 1..Len(Nodes(g))} \cup {END} |-> d]

LabelMap(g, n) ==
    CASE g = "retry02" /\ n = "print_node" ->
             [loop |-> "decrement_node", stop |-> END]
      [] g = "interrupt_before" /\ n = "model" -> NoMapping(g)
      [] g = "looping" /\ n = "should_continue_router" ->
             [continue_edge |-> "random_number_node", finish_edge |-> END]
      [] g = "edge" /\ n = "greet" -> ("search" :> "search") @@ (END :> END)
      [] g = "conditional" /\ n = "router" ->
             [add |-> "add", subtract |-> "subtract", multiply |-> "multiply"]
      [] g = "stream_events" /\ n = "llm_processor_node" ->
             ("continue" :> "tool_nodes") @@ ("end" :> END)
      [] g = "parallel" /\ n = "aggregate_start" ->
             [set_a |-> "set_a", set_b |-> "set_b"]
      [] g = "custom_tool_node" /\ n = "llm_processor_node" ->
             ("continue" :> "tool_node") @@ ("end" :> END)
      [] g \in ToolAgents /\ n = "llm_processor_node" ->
             ("continue" :> "tool_nodes") @@ ("end" :> END)
      [] OTHER -> <<>>

\* compile(interrupt_before=[...])
InterruptBefore(g) == IF g = "interrupt_before" THEN {"tool_node"} ELSE {}

NoRetry == [max_attempts |-> 1, retry_on |-> {}]

RetryPolicyOf(g, n) ==
    CASE g = "retry02" -> retry_policy
      [] g = "retrydb" /\ n = "query_database" -> query_database_policy
      [] g = "retrydb" /\ n = "model" -> model_policy
      [] OTHER -> NoRetry

\* The results the outside world can give a node's external call.
Outcomes(g, n) ==
    CASE g = "retrydb" /\ n = "query_database" -> DbOutcomes
      [] g = "retrydb" /\ n = "model" -> LlmOutcomes
      [] g = "durability" -> ApiOutcomes
      [] g = "interrupt_before" /\ n = "model" -> ToolLlmOutcomes
      [] g = "interrupt_before" /\ n = "tool_node" -> {"saved", "OSError"}
      [] g = "looping" /\ n = "random_number_node" -> 1..MaxRandom
      [] g = "stream_events" /\ n = "llm_processor_node" -> ToolLlmOutcomes
      [] g = "stream_events" /\ n = "tool_nodes" ->
             {"temperature", "not found", "error"}
      [] g \in ChatGraphs -> LlmOutcomes
      [] g = "custom_tool_node" /\ n = "llm_processor_node" -> RequestedLists
      [] g = "custom_tool_node" /\ n = "tool_node" ->
             [1..MaxToolCalls -> {"return", "raise"}]
      [] g = "build_in_tool_node" /\ n = "llm_processor_node" ->
             {<<>>, <<"get_weather">>}
      [] g = "astream_events" /\ n = "llm_processor_node" -> ToolLlmOutcomes
      [] g \in {"build_in_tool_node", "astream_events"} /\ n = "tool_nodes" ->
             {"temperature", "not found", "error"}
      [] g = "supervisor" /\ n = "supervisor" -> SupervisorNext
      [] g = "supervisor" /\ n = "validator" -> ValidatorNext
      [] g = "supervisor" -> {"answer"}
      [] OTHER -> {"ok"}

\* One call of node n's function: its result and the global flag afterwards.
NodeCall(g, n, s, rv, fo, out) ==
    CASE g = "interrupt" /\ n = "node_a" -> [res |-> node_a(s), fail_once |-> fo]
      [] g = "interrupt" /\ n = "node_b" -> [res |-> node_b(s, rv), fail_once |-> fo]
      [] g = "interrupt" /\ n = "node_c" -> [res |-> node_c(s), fail_once |-> fo]
      [] g = "interrupt" /\ n = "node_d" -> [res |-> node_d(s), fail_once |-> fo]
      [] g = "retry02" /\ n = "print_node" -> [res |-> print_node(s), fail_once |-> fo]
      [] g = "retry02" /\ n = "decrement_node" -> decrement_node(s, fo)
      [] g = "retrydb" /\ n = "query_database" ->
             [res |-> query_database(s, out), fail_once |-> fo]
      [] g = "retrydb" /\ n = "model" -> [res |-> call_model(s, out), fail_once |-> fo]
      [] g = "durability" /\ n = "call_api" -> [res |-> call_api(s, out), fail_once |-> fo]
      [] g = "interrupt_before" /\ n = "model" ->
             [res |-> interrupt_before_model(s, out), fail_once |-> fo]
      [] g = "interrupt_before" /\ n = "tool_node" ->
             [res |-> tool_node(s, out), fail_once |-> fo]
      [] g = "multiturn" /\ n = "model" ->
             [res |-> multiturn_model(s, out), fail_once |-> fo]
      [] g = "multiturn" /\ n = "human_node" ->
             [res |-> human_node(s, rv), fail_once |-> fo]
      [] g = "multiturn" /\ n = "end_node" -> [res |-> end_node(s), fail_once |-> fo]
      [] g = "looping" /\ n = "greeting_node" ->
             [res |-> greeting_node(s), fail_once |-> fo]
      [] g = "looping" /\ n = "random_number_node" ->
             [res |-> random_number_node(s, out), fail_once |-> fo]
      [] g = "looping" /\ n = "should_continue_router" ->
             [res |-> should_continue_router(s), fail_once |-> fo]
      [] g = "sequential" /\ n = "initialize" ->
             [res |-> initialize_node(s), fail_once |-> fo]
      [] g = "sequential" /\ n = "increment" ->
             [res |-> increment_node(s), fail_once |-> fo]
      [] g = "sequential" /\ n = "double" ->
             [res |-> double_node(s), fail_once |-> fo]
      [] g = "edge" /\ n = "greet" -> [res |-> greet_node(s), fail_once |-> fo]
      [] g = "edge" /\ n = "search" -> [res |-> search_node(s), fail_once |-> fo]
      [] g = "conditional" /\ n = "add" -> [res |-> add_node(s), fail_once |-> fo]
      [] g = "conditional" /\ n = "subtract" ->
             [res |-> subtract_node(s), fail_once |-> fo]
      [] g = "conditional" /\ n = "multiply" ->
             [res |-> multiply_node(s), fail_once |-> fo]
      [] g = "conditional" /\ n = "router" -> [res |-> router(s), fail_once |-> fo]
      [] g = "stream_events" /\ n = "llm_processor_node" ->
             [res |-> llm_processor_node(s, out), fail_once |-> fo]
      [] g = "stream_events" /\ n = "tool_nodes" ->
             [res |-> tool_nodes(s, out), fail_once |-> fo]
      [] g = "parallel" /\ n = "set_a" -> [res |-> set_a(s), fail_once |-> fo]
      [] g = "parallel" /\ n = "set_b" -> [res |-> set_b(s), fail_once |-> fo]
      [] g = "parallel" /\ n = "aggregate" ->
             [res |-> aggregate(s), fail_once |-> fo]
      [] g = "parallel" /\ n = "aggregate_start" ->
             [res |-> Update(s), fail_once |-> fo]
      [] g = "custom_tool_node" /\ n = "llm_processor_node" ->
             [res |-> llm_processor_node_appends(s, out), fail_once |-> fo]
      [] g = "custom_tool_node" /\ n = "tool_node" ->
             [res |-> custom_tool_node(s, out), fail_once |-> fo]
      [] g = "build_in_tool_node" /\ n = "llm_processor_node" ->
             [res |-> llm_processor_node_appends(s, out), fail_once |-> fo]
      [] g = "astream_events" /\ n = "llm_processor_node" ->
             [res |-> llm_processor_node(s, out), fail_once |-> fo]
      [] g \in {"build_in_tool_node", "astream_events"} /\ n = "tool_nodes" ->
             [res |-> tool_nodes(s, out), fail_once |-> fo]
      [] g \in ChatGraphs /\ n = "llm_chat_node" ->
             [res |-> llm_chat_node(s, out), fail_once |-> fo]
      [] g = "supervisor" /\ n = "supervisor" ->
             [res |-> supervisor_node(s, out), fail_once |-> fo]
      [] g = "supervisor" /\ n = "enhancer" ->
             [res |-> enhancer_node(s, out), fail_once |-> fo]
      [] g = "supervisor" /\ n = "researcher" ->
             [res |-> research_node(s, out), fail_once |-> fo]
      [] g = "supervisor" /\ n = "coder" ->
             [res |-> code_node(s, out), fail_once |-> fo]
      [] g = "supervisor" /\ n = "validator" ->
             [res |-> validator_node(s, out), fail_once |-> fo]

\* The inputs the thread's first invoke is given.  looping.py invokes with
\* counter 6; conditional.py reads the operation and operands from its user.
Inputs(g) ==
    CASE g = "interrupt"  -> {[value |-> <<>>], [value |-> <<"x">>]}
      [] g = "retry02"    -> {[number |-> n] : n \in 0..MaxNumber}
      [] g = "retrydb"    -> {[messages |-> <<>>],
                              [messages |-> <<[id |-> NoId, content |-> "hi"]>>]}
      [] g = "durability" -> {[url |-> "https://www.example.com"]}
      [] g = "interrupt_before" ->
             {[messages |-> <<HumanMessage("write notes on LLM?")>>]}
      [] g = "multiturn"  -> {[linkedin_topic |-> "topic",
                               generated_post |-> <<>>,
                               human_feedback |-> <<>>]}
      [] g = "looping"    -> {[name |-> <<"Alice">>, numbers |-> <<>>,
                               counter |-> c] :
                                  c \in {0, LoopLimit, LoopLimit + 1}}
      [] g = "sequential" -> {<<>>, [value |-> 7]}
      [] g = "edge"       -> {[messages |-> <<>>], [messages |-> <<UserQuery>>]}
      [] g = "conditional" -> {[operation |-> op, number_1 |-> x[1],
                                number_2 |-> x[2]] :
                                   op \in {"+", "-", "*", "/"},
                                   x \in {<<2, 3>>, <<3, 2>>}}
      [] g = "stream_events" -> {[messages |-> <<HumanMessage("weather?")>>]}
      [] g = "parallel"   -> {[a |-> x, b |-> x, sum |-> 0] : x \in {0, 1}}
      [] g \in ChatGraphs       -> {[messages |-> <<HumanMessage(u)>>] :
                                  u \in {"hello", "thanks"}}
      [] g \in ToolAgents       -> {[messages |-> <<HumanMessage("weather?")>>]}
      [] g = "supervisor" ->
             {[messages |-> <<HumanMessage("Weather in Chennai")>>]}

\* The state schema of each graph, every channel still empty.
Blank(g) ==
    CASE g = "interrupt"  -> [value |-> <<>>]
      [] g = "retry02"    -> [number |-> 0]
      [] g = "retrydb"    -> [messages |-> <<>>]
      [] g = "durability" -> [url |-> NoValue, result |-> NoValue]
      [] g = "interrupt_before" -> [messages |-> <<>>]
      [] g = "multiturn"  -> [linkedin_topic |-> NoValue, generated_post |-> <<>>,
                              human_feedback |-> <<>>]
      [] g = "looping"    -> [name |-> <<>>, numbers |-> <<>>, counter |-> 0]
      [] g = "sequential" -> [value |-> 0]
      [] g = "edge"       -> [messages |-> <<>>]
      [] g = "conditional" -> [number_1 |-> 0, number_2 |-> 0,
                               operation |-> NoValue, result |-> 0]
      [] g = "stream_events" -> [messages |-> <<>>]
      [] g = "parallel"   -> [a |-> 0, b |-> 0, sum |-> 0]
      [] g \in ChatGraphs \cup ToolAgents -> [messages |-> <<>>]
      [] g = "supervisor" -> [messages |-> <<>>]

(***************************************************************************)
(* State container: reducers and merge.                                    *)
(***************************************************************************)
Max(S) == IF S = {} THEN 0 ELSE CHOOSE x \in S : \A y \in S : y <= x

\* A message without an id is given one that no other message has.
FreshId(msgs) == Max({msgs[i].id : i \in 1..Len(msgs)} \cup {MaxCallerId}) + 1

\* add_messages without the lookup by id: every message is appended.
add_messages_append_only(left, right) == left \o right

\* add_messages that drops the message of the same id and appends the new one.
RECURSIVE add_messages_moves_last(_, _)
add_messages_moves_last(left, right) ==
    IF right = <<>>
    THEN left
    ELSE LET m == Head(right)
             keep == SelectSeq(left, LAMBDA x : m.id = NoId \/ x.id # m.id)
             one == IF m.id = NoId
                    THEN Append(left, [m EXCEPT !.id = FreshId(left)])
                    ELSE Append(keep, m)
         IN  add_messages_moves_last(one, Tail(right))

\* langgraph.graph.message.add_messages: append, or overwrite the message
\* that has the same id.
RECURSIVE add_messages(_, _)
add_messages(left, right) ==
    IF right = <<>>
    THEN left
    ELSE LET m == Head(right)
             hit == {i \in 1..Len(left) : m.id # NoId /\ left[i].id = m.id}
             one == IF hit # {}
                    THEN [left EXCEPT ![CHOOSE i \in hit : TRUE] = m]
                    ELSE IF m.id = NoId
                         THEN Append(left, [m EXCEPT !.id = FreshId(left)])
                         ELSE Append(left, m)
         IN  add_messages(one, Tail(right))

\* edge.py's AgentState without its Annotated[list, operator.add].
ReducerEdgeUnannotated(g, key) ==
    CASE key = "messages" /\ g \in {"retrydb", "ComplexState", "stock",
                                    "interrupt_before", "chat", "chat_mongo"}
                                       \cup ToolAgents \cup {"supervisor"} ->
             "add_messages"
      [] key \in {"generated_post", "human_feedback"} /\ g = "multiturn" ->
             "add_messages"
      [] OTHER -> "replace"

\* The reducer a state schema annotates a field with; a field without an
\* annotation is replaced.
Reducer(g, key) ==
    CASE key = "messages" /\ g \in {"retrydb", "ComplexState", "stock",
                                    "interrupt_before", "chat", "chat_mongo"}
                                       \cup ToolAgents \cup {"supervisor"} ->
             "add_messages"
      [] key \in {"generated_post", "human_feedback"} /\ g = "multiturn" ->
             "add_messages"
      [] key = "messages" /\ g = "edge" -> "operator.add"
      [] OTHER -> "replace"

\* A replace reducer that keeps the first value written.
ReduceKeepsOld(rule, old, new) ==
    CASE rule = "add_messages" -> add_messages(old, new)
      [] rule = "operator.add" -> old \o new
      [] OTHER -> old

Reduce(rule, old, new) ==
    CASE rule = "add_messages" -> add_messages(old, new)
      [] rule = "operator.add" -> old \o new
      [] OTHER -> new

Merge(g, cur, part) ==
    [k \in DOMAIN cur |->
        IF k \in DOMAIN part THEN Reduce(Reducer(g, k), cur[k], part[k])
        ELSE cur[k]]

HasUpdate(w) == w.res.kind \in {"update", "command"}

\* The step's collected updates merged one after the other, in the order the
\* nodes were registered.
RECURSIVE MergeWrites(_, _, _, _)
MergeWrites(g, s, ws, i) ==
    IF i > Len(Nodes(g))
    THEN s
    ELSE LET mine == {w \in Range(ws) : w.node = Nodes(g)[i] /\ HasUpdate(w)}
         IN  IF mine = {}
             THEN MergeWrites(g, s, ws, i + 1)
             ELSE MergeWrites(g, Merge(g, s, (CHOOSE w \in mine : TRUE).res.update),
                              ws, i + 1)

\* History of the merges MergeWrites makes: which node's update, in which
\* step of which call.
RECURSIVE MergedNodes(_, _, _, _, _)
MergedNodes(g, ws, i, step, call) ==
    IF i > Len(Nodes(g))
    THEN <<>>
    ELSE LET mine == {w \in Range(ws) : w.node = Nodes(g)[i] /\ HasUpdate(w)}
         IN  (IF mine = {} THEN <<>>
              ELSE <<[node |-> Nodes(g)[i], step |-> step, call |-> call]>>)
             \o MergedNodes(g, ws, i + 1, step, call)

(***************************************************************************)
(* Edge table.                                                             *)
(***************************************************************************)
RoutingError == "<RoutingError>"

\* What a router's own exception leaves in place of a destination.
RouterExceptions == {RouterRaises("ValueError")}

\* An edge table in which a Command's goto is added to the node's edges.
TargetsFollowsEdges(g, n, res, s) ==
    (IF res.kind = "command" THEN res.goto ELSE {})
    \cup (IF n \in ConditionalSources(g)
          THEN {IF label \in RouterExceptions
                THEN label
                ELSE IF label \in DOMAIN LabelMap(g, n)
                THEN LabelMap(g, n)[label]
                ELSE RoutingError : label \in RouterLabels(g, n, s)}
          ELSE {e[2] : e \in {d \in DirectEdges(g) : d[1] = n}})

\* An edge table that ends the branch when the label names no destination.
TargetsUnknownEnds(g, n, res, s) ==
    IF res.kind = "command"
    THEN res.goto
    ELSE IF n \in ConditionalSources(g)
         THEN {IF label \in RouterExceptions
               THEN label
               ELSE IF label \in DOMAIN LabelMap(g, n)
               THEN LabelMap(g, n)[label]
               ELSE END : label \in RouterLabels(g, n, s)}
         ELSE {e[2] : e \in {d \in DirectEdges(g) : d[1] = n}}

\* Where node n's result leads: a Command's goto overrides the edge table; a
\* conditional edge is used when the node has one, every label its routing
\* function returned naming one destination; direct edges otherwise.
Targets(g, n, res, s) ==
    IF res.kind = "command"
    THEN res.goto
    ELSE IF n \in ConditionalSources(g)
         THEN {IF label \in RouterExceptions
               THEN label
               ELSE IF label \in DOMAIN LabelMap(g, n)
               THEN LabelMap(g, n)[label]
               ELSE RoutingError : label \in RouterLabels(g, n, s)}
         ELSE {e[2] : e \in {d \in DirectEdges(g) : d[1] = n}}

NextTargets(g, ws, s) ==
    UNION {Targets(g, w.node, w.res, s) : w \in Range(ws)}

(***************************************************************************)
(* Retry policy.                                                           *)
(***************************************************************************)
IsInstance(exc, cls) == cls = "Exception" \/ exc = cls

Retryable(policy, exc) == \E cls \in policy.retry_on : IsInstance(exc, cls)

ShouldRetryOffByOne(policy, exc, attempt) ==
    Retryable(policy, exc) /\ attempt + 1 < policy.max_attempts

\* After the attempt-th failed attempt: run the node again?
ShouldRetry(policy, exc, attempt) ==
    Retryable(policy, exc) /\ attempt < policy.max_attempts

(***************************************************************************)
(* Checkpoint store of the thread and the durability tiers.                *)
(***************************************************************************)
Tiers == {"exit", "async", "sync"}

None == [seq |-> 0]

load_latest(st) == IF st = <<>> THEN None ELSE st[Len(st)]

Checkpoint(st, infl, steps, values, next) ==
    [seq |-> Len(st) + Len(infl) + 1, step |-> steps,
     values |-> values, next |-> next]

SaveStepAsyncAlways(tier, st, infl, cp) ==
    [store |-> st, inflight |-> Append(infl, cp), issued |-> 1]

SaveStepSyncAlways(tier, st, infl, cp) ==
    [store |-> Append(st, cp), inflight |-> infl, issued |-> 1]

\* A save that loses the checkpoint's pending nodes.
SaveStepForgetsNext(tier, st, infl, cp) ==
    CASE tier = "sync"  -> [store |-> Append(st, [cp EXCEPT !.next = {}]),
                            inflight |-> infl, issued |-> 1]
      [] tier = "async" -> [store |-> st,
                            inflight |-> Append(infl, [cp EXCEPT !.next = {}]),
                            issued |-> 1]
      [] tier = "exit"  -> [store |-> st, inflight |-> infl, issued |-> 0]

\* The save after a step that is followed by another step.
SaveStep(tier, st, infl, cp) ==
    CASE tier = "sync"  -> [store |-> Append(st, cp), inflight |-> infl,
                            issued |-> 1]
      [] tier = "async" -> [store |-> st, inflight |-> Append(infl, cp),
                            issued |-> 1]
      [] tier = "exit"  -> [store |-> st, inflight |-> infl, issued |-> 0]

\* An end of run that saves its checkpoint only on a thread that has none.
SaveExitKeepsFirst(tier, st, infl, cp) ==
    IF st = <<>> /\ infl = <<>>
    THEN [store |-> <<cp>>, inflight |-> <<>>, issued |-> 1]
    ELSE [store |-> st \o infl, inflight |-> <<>>, issued |-> 0]

\* An end of run that completes the saves under way but issues none.
SaveExitDropsCheckpoint(tier, st, infl, cp) ==
    [store |-> st \o infl, inflight |-> <<>>, issued |-> 0]

\* The save when the run ends (completed, interrupted or failed): the run
\* returns once its saves are written.
SaveExit(tier, st, infl, cp) ==
    [store |-> st \o infl \o <<cp>>, inflight |-> <<>>, issued |-> 1]

(***************************************************************************)
(* The executor: one thread of one graph.                                  *)
(***************************************************************************)
NoResult == [kind |-> "none"]

ResumeKeys == {NoKey, "node_b", "approval_request"}

ResumeValues == {"C", "D"}

\* The events of a stream: one per step with the step's updates by node
\* (stream_mode "updates") and the state after it (stream_mode "values"),
\* and the one the stream ends with.
TerminalKindAlwaysCompletion(st) == "completion"

TerminalKind(st) ==
    CASE st = "COMPLETED"   -> "completion"
      [] st = "FAILED"      -> "failure"
      [] st = "INTERRUPTED" -> "__interrupt__"

TerminalEvent(c, st) == [call |-> c, kind |-> TerminalKind(st)]

StepEvents(c, step, ws, values) ==
    LET done == {w \in Range(ws) : HasUpdate(w)}
    IN  IF done = {} THEN <<>>
        ELSE <<[call |-> c, kind |-> "step", step |-> step,
                updates |-> [n \in {w.node : w \in done} |->
                                (CHOOSE w \in done : w.node = n).res.update],
                values |-> values]>>

EngineInit ==
    /\ graph \in Graphs
    /\ durability \in Tiers
    /\ status = "PENDING"
    /\ state = Blank(graph)
    /\ active = {}
    /\ attempts = <<>>
    /\ writes = <<>>
    /\ resume = NoValue
    /\ store = <<>>
    /\ inflight = <<>>
    /\ result = NoResult
    /\ fail_once = TRUE
    /\ stepsDone = 0
    /\ log = <<>>
    /\ merged = <<>>
    /\ calls = <<>>
    /\ runSaves = 0
    /\ trace = <<>>
    /\ events = <<>>

\* invoke(initial_state, config): the first invocation of the thread.
Invoke(input) ==
    /\ status = "PENDING"
    /\ Len(calls) < MaxCalls
    /\ status' = "RUNNING"
    /\ state' = Merge(graph, Blank(graph), input)
    /\ active' = EntryNodes(graph)
    /\ attempts' = [n \in EntryNodes(graph) |-> 0]
    /\ writes' = <<>>
    /\ resume' = NoValue
    /\ result' = NoResult
    /\ calls' = Append(calls, [kind |-> "invoke", accepted |-> TRUE,
                                input |-> input, before |-> status])
    /\ runSaves' = 0
    /\ UNCHANGED <<graph, durability, store, inflight, fail_once, stepsDone,
                   log, merged, trace, events, storeVars, mergeVars, memoryVars>>

Done == {writes[i].node : i \in 1..Len(writes)}

\* One attempt of an active node against the step's state snapshot.
RunAttempt(n, out) ==
    /\ status = "RUNNING"
    /\ n \in active \ Done
    /\ LET call == NodeCall(graph, n, state, resume, fail_once, out)
           r == call.res
           attempt == attempts[n] + 1
           policy == RetryPolicyOf(graph, n)
           entry == [node |-> n, outcome |-> r.kind, call |-> Len(calls),
                     step |-> stepsDone + 1, attempt |-> attempt,
                     exc |-> IF r.kind = "raise" THEN r.exc ELSE NoValue]
       IN  /\ fail_once' = call.fail_once
           /\ log' = Append(log, entry)
           /\ attempts' = [attempts EXCEPT ![n] = attempt]
           /\ IF r.kind # "raise"
              THEN /\ writes' = Append(writes, [node |-> n, res |-> r])
                   /\ UNCHANGED <<status, store, inflight, result, runSaves,
                                  events>>
              ELSE IF ShouldRetry(policy, r.exc, attempt)
              THEN UNCHANGED <<writes, status, store, inflight, result, runSaves,
                               events>>
              ELSE LET cp == Checkpoint(store, inflight, stepsDone, state, active)
                       sv == SaveExit(durability, store, inflight, cp)
                   IN  /\ status' = "FAILED"
                       /\ store' = sv.store
                       /\ inflight' = sv.inflight
                       /\ runSaves' = runSaves + sv.issued
                       /\ result' = [kind |-> "error",
                                     error |-> "NodeExecutionError",
                                     node |-> n, attempts |-> attempt,
                                     exc |-> r.exc]
                       /\ events' = Append(events,
                                           TerminalEvent(Len(calls), "FAILED"))
                       /\ UNCHANGED writes
    /\ UNCHANGED <<graph, durability, state, active, resume, stepsDone, merged,
                   calls, trace, storeVars, mergeVars, memoryVars>>

Interrupted == {w \in Range(writes) : w.res.kind = "interrupt"}

\* The end of a step: merge the collected updates, then halt on an
\* interrupt, or checkpoint and move to the next active set.
EndStep ==
    /\ status = "RUNNING"
    /\ active # {}
    /\ Done = active
    /\ LET s1 == MergeWrites(graph, state, writes, 1)
           next == NextTargets(graph, writes, s1)
       IN  /\ state' = s1
           /\ merged' = merged \o MergedNodes(graph, writes, 1, stepsDone + 1, Len(calls))
           /\ writes' = <<>>
           /\ resume' = NoValue
           /\ IF Interrupted # {}
              THEN LET pend == {w.node : w \in Interrupted}
                       cp == Checkpoint(store, inflight, stepsDone, s1, pend)
                       sv == SaveExit(durability, store, inflight, cp)
                   IN  /\ status' = "INTERRUPTED"
                       /\ active' = pend
                       /\ attempts' = [n \in pend |-> 0]
                       /\ store' = sv.store
                       /\ inflight' = sv.inflight
                       /\ runSaves' = runSaves + sv.issued
                       /\ stepsDone' = stepsDone
                       /\ result' = [kind |-> "interrupt",
                                     payload |-> (CHOOSE w \in Interrupted : TRUE).res.payload,
                                     values |-> s1]
              ELSE IF next \cap ({RoutingError} \cup RouterExceptions) # {}
              THEN LET cp == Checkpoint(store, inflight, stepsDone + 1, s1, {})
                       sv == SaveExit(durability, store, inflight, cp)
                   IN  /\ status' = "FAILED"
                       /\ active' = {}
                       /\ attempts' = <<>>
                       /\ store' = sv.store
                       /\ inflight' = sv.inflight
                       /\ runSaves' = runSaves + sv.issued
                       /\ stepsDone' = stepsDone + 1
                       /\ result' = [kind |-> "error",
                                     error |-> IF RoutingError \in next
                                               THEN "RoutingError"
                                               ELSE "ValueError"]
              ELSE IF next \cap InterruptBefore(graph) # {}
              THEN LET pend == next \ {END}
                       cp == Checkpoint(store, inflight, stepsDone + 1, s1, pend)
                       sv == SaveExit(durability, store, inflight, cp)
                   IN  /\ status' = "INTERRUPTED"
                       /\ active' = pend
                       /\ attempts' = [n \in pend |-> 0]
                       /\ store' = sv.store
                       /\ inflight' = sv.inflight
                       /\ runSaves' = runSaves + sv.issued
                       /\ stepsDone' = stepsDone + 1
                       /\ result' = [kind |-> "interrupt", payload |-> NoValue,
                                     values |-> s1]
              ELSE IF next \ {END} = {}
              THEN LET cp == Checkpoint(store, inflight, stepsDone + 1, s1, {})
                       sv == SaveExit(durability, store, inflight, cp)
                   IN  /\ status' = "COMPLETED"
                       /\ active' = {}
                       /\ attempts' = <<>>
                       /\ store' = sv.store
                       /\ inflight' = sv.inflight
                       /\ runSaves' = runSaves + sv.issued
                       /\ stepsDone' = stepsDone + 1
                       /\ result' = [kind |-> "state", values |-> s1]
              ELSE LET nxt == next \ {END}
                       cp == Checkpoint(store, inflight, stepsDone + 1, s1, nxt)
                       sv == SaveStep(durability, store, inflight, cp)
                   IN  /\ active' = nxt
                       /\ attempts' = [n \in nxt |-> 0]
                       /\ store' = sv.store
                       /\ inflight' = sv.inflight
                       /\ runSaves' = runSaves + sv.issued
                       /\ stepsDone' = stepsDone + 1
                       /\ UNCHANGED <<status, result>>
    /\ trace' = Append(trace,
                       [call |-> Len(calls), before |-> state, active |-> active,
                        rv |-> resume, writes |-> Range(writes),
                        after |-> state', next |-> active', status |-> status',
                        cp |-> IF runSaves' > runSaves
                               THEN Checkpoint(store, inflight, stepsDone,
                                               state', active').seq
                               ELSE 0])
    /\ events' = events \o StepEvents(Len(calls), stepsDone + 1, writes, state')
                        \o (IF status' = "RUNNING" THEN <<>>
                            ELSE <<TerminalEvent(Len(calls), status')>>)
    /\ UNCHANGED <<graph, durability, fail_once, log, calls, storeVars, mergeVars, memoryVars>>

\* Under "async" a save issued after a step completes some time later.
CompleteSave ==
    /\ inflight # <<>>
    /\ store' = Append(store, Head(inflight))
    /\ inflight' = Tail(inflight)
    /\ UNCHANGED <<graph, durability, status, state, active, attempts, writes,
                   resume, result, fail_once, stepsDone, log, merged, calls,
                   runSaves, trace, events, storeVars, mergeVars, memoryVars>>

PendingIds == IF status = "INTERRUPTED" THEN load_latest(store).next ELSE {}

ResumeIgnoresKey(key) == status = "INTERRUPTED"

\* A resume that is also accepted on a thread whose run has completed.
ResumeAfterCompletion(key) ==
    /\ status \in {"INTERRUPTED", "COMPLETED"}
    /\ key = NoKey \/ key \in PendingIds

\* A resume value applies to the thread's pending interrupt: a bare value, or
\* one keyed by the pending interrupt's identifier.
ResumeMatches(key) ==
    /\ status = "INTERRUPTED"
    /\ key = NoKey \/ key \in PendingIds


\* invoke(Command(resume=...), config): resume the thread's pending interrupt.
ResumeThread(key, value) ==
    /\ status # "RUNNING"
    /\ Len(calls) < MaxCalls
    /\ calls' = Append(calls, [kind |-> "resume", accepted |-> ResumeMatches(key),
                                key |-> key,
                                value |-> IF ResumeMatches(key) THEN value
                                          ELSE NoValue,
                                before |-> status, pending |-> PendingIds])
    /\ IF ResumeMatches(key)
       THEN LET cp == load_latest(store)
            IN  /\ status' = "RUNNING"
                /\ state' = cp.values
                /\ active' = cp.next
                /\ attempts' = [n \in cp.next |-> 0]
                /\ writes' = <<>>
                /\ resume' = value
                /\ result' = NoResult
                /\ runSaves' = 0
       ELSE /\ result' = [kind |-> "error", error |-> "ResumeMismatchError",
                          key |-> key]
            /\ UNCHANGED <<status, state, active, attempts, writes, resume,
                           runSaves>>
    /\ UNCHANGED <<graph, durability, store, inflight, fail_once, stepsDone,
                   log, merged, trace, events, storeVars, mergeVars, memoryVars>>

\* invoke(None, config) with a checkpoint_id in config: the thread is run
\* again from the stored checkpoint.
Replay(k) ==
    /\ status \in {"COMPLETED", "INTERRUPTED", "FAILED"}
    /\ Len(calls) < MaxCalls
    /\ Cardinality({c \in 1..Len(calls) : calls[c].kind = "replay"}) < MaxReplays
    /\ k \in 1..Len(store)
    /\ LET cp == store[k]
       IN  /\ calls' = Append(calls, [kind |-> "replay", accepted |-> TRUE,
                                       from |-> cp.seq, before |-> status])
           /\ state' = cp.values
           /\ active' = cp.next
           /\ attempts' = [n \in cp.next |-> 0]
           /\ stepsDone' = cp.step
           /\ IF cp.next = {}
              THEN /\ status' = "COMPLETED"
                   /\ result' = [kind |-> "state", values |-> cp.values]
                   /\ events' = Append(events,
                                       TerminalEvent(Len(calls'), "COMPLETED"))
              ELSE /\ status' = "RUNNING"
                   /\ result' = NoResult
                   /\ UNCHANGED events
    /\ writes' = <<>>
    /\ resume' = NoValue
    /\ runSaves' = 0
    /\ UNCHANGED <<graph, durability, store, inflight, fail_once, log, merged,
                   trace, storeVars, mergeVars, memoryVars>>

(***************************************************************************)
(* graph_persistence/short_term_memory/mongodb_checkpointer.py             *)
(* MongoDBCheckpointSaver over one pymongo collection.  Python values that *)
(* are compared with each other carry their type: a str never equals an    *)
(* ObjectId or None.                                                       *)
(***************************************************************************)
MaxDocs == 3

Str(s) == <<"str", s>>

ObjectId(n) == <<"ObjectId", n>>

PyNone == <<"None">>

Missing == <<"missing">>

\* str(result.inserted_id)
str(x) == IF x[1] = "ObjectId" THEN <<"str", <<"oid", x[2]>> >> ELSE x

Threads == {"1", "2"}

\* The config shapes the callers pass: the scripts' invoke config keeps the
\* thread id under "configurable"; get_tuple and list read it at top level.
FlatConfig(t) == [thread_id |-> Str(t)]

NestedConfig(t) == [configurable |-> [thread_id |-> Str(t), user_id |-> Str("1")]]

Configs == {FlatConfig(t) : t \in Threads} \cup {NestedConfig(t) : t \in Threads}

CheckpointValues == {"v1", "v2"}

\* dict.get(key): the value, or None when the key is absent
Get(d, key) == IF key \in DOMAIN d THEN d[key] ELSE PyNone

\* The value a document holds at a query path.
DocField(doc, path) ==
    CASE path = "config.thread_id" ->
             IF "thread_id" \in DOMAIN doc.config
             THEN doc.config.thread_id ELSE Missing
      [] path = "_id" -> doc.id

\* MongoDB equality match: a query value of None matches a null or absent
\* field.
MatchValue(dv, qv) ==
    IF qv = PyNone THEN dv \in {Missing, PyNone} ELSE dv = qv

MatchesQuery(doc, query) ==
    \A path \in DOMAIN query : MatchValue(DocField(doc, path), query[path])

\* collection.find(query): the matching documents in natural order
RECURSIVE find(_, _)
find(coll, query) ==
    IF coll = <<>>
    THEN <<>>
    ELSE (IF MatchesQuery(Head(coll), query) THEN <<Head(coll)>> ELSE <<>>)
         \o find(Tail(coll), query)

\* collection.find_one(query): the first matching document in natural order
find_one(coll, query) ==
    LET hits == find(coll, query)
    IN  IF hits = <<>> THEN [found |-> FALSE]
        ELSE [found |-> TRUE, doc |-> hits[1]]

\* query = {"config.thread_id": config.get("thread_id")}
ThreadQuery(config) == "config.thread_id" :> Get(config, "thread_id")

\* put(config, metadata, values, next_nodes, tasks)
put(config, metadata, values, next_nodes, tasks) ==
    /\ Len(collection) < MaxDocs
    /\ nextOid <= MaxDocs
    /\ LET checkpoint == [id |-> ObjectId(nextOid), config |-> config,
                          metadata |-> metadata, values |-> values,
                          next |-> next_nodes, tasks |-> tasks]
       IN  /\ collection' = Append(collection, checkpoint)
           /\ nextOid' = nextOid + 1
           /\ returned' = returned \cup {str(checkpoint.id)}
           /\ lastOp' = [op |-> "put", config |-> config,
                         result |-> str(checkpoint.id)]
    /\ UNCHANGED <<engineVars, mergeVars, memoryVars>>

\* get_tuple(config, checkpoint_id=None)
get_tuple(config, checkpoint_id) ==
    /\ LET query == IF checkpoint_id # PyNone
                    THEN ThreadQuery(config) @@ ("_id" :> checkpoint_id)
                    ELSE ThreadQuery(config)
       IN  lastOp' = [op |-> "get_tuple", config |-> config,
                      checkpoint_id |-> checkpoint_id,
                      result |-> find_one(collection, query)]
    /\ UNCHANGED <<collection, nextOid, returned>>
    /\ UNCHANGED <<engineVars, mergeVars, memoryVars>>

\* list(config)
list(config) ==
    /\ lastOp' = [op |-> "list", config |-> config,
                  result |-> find(collection, ThreadQuery(config))]
    /\ UNCHANGED <<collection, nextOid, returned>>
    /\ UNCHANGED <<engineVars, mergeVars, memoryVars>>

RECURSIVE Without(_, _)
Without(coll, query) ==
    IF coll = <<>>
    THEN <<>>
    ELSE (IF MatchesQuery(Head(coll), query) THEN <<>> ELSE <<Head(coll)>>)
         \o Without(Tail(coll), query)

\* delete_thread(thread_id)
delete_thread(thread_id) ==
    /\ LET query == "config.thread_id" :> thread_id
       IN  /\ collection' = Without(collection, query)
           /\ lastOp' = [op |-> "delete_thread", thread_id |-> thread_id,
                         before |-> collection,
                         result |-> Len(find(collection, query))]
    /\ UNCHANGED <<nextOid, returned>>
    /\ UNCHANGED <<engineVars, mergeVars, memoryVars>>

CheckpointIds == {PyNone} \cup {str(ObjectId(n)) : n \in 1..MaxDocs}

\* The documents MongoDBCheckpointSaver.put has inserted for the saves of the
\* thread the chat script runs, under the config the script invokes with.
Documents(st) ==
    [i \in 1..Len(st) |->
        [id |-> ObjectId(i), config |-> NestedConfig("1"), metadata |-> <<>>,
         values |-> st[i].values, next |-> st[i].next, tasks |-> <<>>]]

\* The checkpoint a new invocation of the thread continues from: the library's
\* InMemorySaver gives the latest; MongoDBCheckpointSaver gives what its
\* get_tuple(config) finds.
ThreadCheckpoint(g, st) ==
    IF g = "chat_mongo"
    THEN find_one(Documents(st), ThreadQuery(NestedConfig("1"))).doc
    ELSE load_latest(st)

\* invoke(input, config) on a thread of a graph compiled with a checkpointer
\* whose last run has completed: the input is merged into the state of the
\* thread's checkpoint and the graph runs from its entry point.
InvokeAgain(input) ==
    /\ graph \in ChatGraphs
    /\ status = "COMPLETED"
    /\ Len(calls) < MaxCalls
    /\ store # <<>>
    /\ status' = "RUNNING"
    /\ state' = Merge(graph, ThreadCheckpoint(graph, store).values, input)
    /\ active' = EntryNodes(graph)
    /\ attempts' = [n \in EntryNodes(graph) |-> 0]
    /\ writes' = <<>>
    /\ resume' = NoValue
    /\ result' = NoResult
    /\ calls' = Append(calls, [kind |-> "invoke", accepted |-> TRUE,
                                input |-> input, before |-> status])
    /\ runSaves' = 0
    /\ UNCHANGED <<graph, durability, store, inflight, fail_once, stepsDone,
                   log, merged, trace, events, storeVars, mergeVars, memoryVars>>


\* The long-term memory before any run of memory_node.
MemoryIdle ==
    /\ script = "inmemorystore"
    /\ items = <<>>
    /\ vector = <<>>
    /\ memory_context = <<>>
    /\ remembered = <<>>

StoreIdle ==
    /\ collection = <<>>
    /\ nextOid = 1
    /\ returned = {}
    /\ lastOp = [op |-> "none"]

\* The state container before any standalone merge.
MergeIdle ==
    /\ schema = "sequential"
    /\ initial = [value |-> 0]
    /\ current = [value |-> 0]
    /\ applied = <<>>

Init == EngineInit /\ StoreIdle /\ MergeIdle /\ MemoryIdle

Next ==
    \/ \E input \in Inputs(graph) : Invoke(input)
    \/ \E n \in active : \E out \in Outcomes(graph, n) : RunAttempt(n, out)
    \/ EndStep
    \/ CompleteSave
    \/ \E key \in ResumeKeys, value \in ResumeValues : ResumeThread(key, value)

Spec == Init /\ [][Next]_vars

\* An invoke call is synchronous: once it has started, the executor keeps
\* taking steps until the run ends.
Step ==
    \/ \E n \in active : \E out \in Outcomes(graph, n) : RunAttempt(n, out)
    \/ EndStep

LiveSpec == Spec /\ WF_vars(Step)

\* The executor with replays from stored checkpoints.
ReplayNext ==
    \/ \E input \in Inputs(graph) : Invoke(input)
    \/ \E n \in active : \E out \in Outcomes(graph, n) : RunAttempt(n, out)
    \/ EndStep
    \/ CompleteSave
    \/ \E key \in ResumeKeys, value \in ResumeValues : ResumeThread(key, value)
    \/ \E k \in 1..Len(store) : Replay(k)

SpecReplay == Init /\ [][ReplayNext]_vars

\* The executor over every script's graph: a new thread, and the
\* checkpointer's collection and the state container left alone.
ScriptsStart ==
    /\ graph \in Scripts
    /\ durability \in Tiers
    /\ status = "PENDING"
    /\ state = Blank(graph)
    /\ active = {}
    /\ attempts = <<>>
    /\ writes = <<>>
    /\ resume = NoValue
    /\ store = <<>>
    /\ inflight = <<>>
    /\ result = NoResult
    /\ fail_once = TRUE
    /\ stepsDone = 0
    /\ log = <<>>
    /\ merged = <<>>
    /\ calls = <<>>
    /\ runSaves = 0
    /\ trace = <<>>
    /\ events = <<>>
    /\ StoreIdle
    /\ MergeIdle
    /\ MemoryIdle

\* A chat model may ask for a tool any number of times; the model lets it
\* ask MaxToolRounds times in one thread.
MaxToolRounds == 1

ToolRounds(s) ==
    Cardinality({i \in 1..Len(s.messages) : HasToolCalls(s.messages[i])})

\* The messages after which supervisor_multiagent.py's supervisor hands the
\* question to a worker that answers and its validator accepts the answer.
MaxAgentTurns == 6

OutcomesAt(g, n, s) ==
    CASE g \in ToolAgents /\ n = "llm_processor_node"
         /\ ToolRounds(s) >= MaxToolRounds ->
             IF g \in {"custom_tool_node", "build_in_tool_node"}
             THEN {<<>>} ELSE {"answer"}
      [] g = "supervisor" /\ n = "supervisor"
         /\ Len(s.messages) >= MaxAgentTurns -> SupervisorNext \ {"enhancer"}
      [] g = "supervisor" /\ n = "validator"
         /\ Len(s.messages) >= MaxAgentTurns -> {"FINISH"}
      [] OTHER -> Outcomes(g, n)

\* The feedback multiturn.py's caller resumes with; C/D for interrupt.py.  The
\* scripts' callers resume a thread when its stream has shown an interrupt.
ResumeValuesOf(g) == IF g = "multiturn" THEN {"Done", "more"} ELSE ResumeValues

ScriptsStep ==
    \/ \E n \in active : \E out \in OutcomesAt(graph, n, state) : RunAttempt(n, out)
    \/ EndStep

ScriptsNext ==
    \/ \E input \in Inputs(graph) : Invoke(input)
    \/ \E n \in active : \E out \in OutcomesAt(graph, n, state) : RunAttempt(n, out)
    \/ EndStep
    \/ CompleteSave
    \/ \E key \in ResumeKeys, value \in ResumeValuesOf(graph) :
           status = "INTERRUPTED" /\ ResumeThread(key, value)

SpecScripts == ScriptsStart /\ [][ScriptsNext]_vars

\* An invocation is synchronous: the executor keeps taking steps until the
\* run ends.
LiveScripts == SpecScripts /\ WF_vars(ScriptsStep)

\* A new thread of one of the graphs gs, the checkpointer's collection and
\* the state container left alone.
NewThread(gs) ==
    /\ graph \in gs
    /\ durability \in Tiers
    /\ status = "PENDING"
    /\ state = Blank(graph)
    /\ active = {}
    /\ attempts = <<>>
    /\ writes = <<>>
    /\ resume = NoValue
    /\ store = <<>>
    /\ inflight = <<>>
    /\ result = NoResult
    /\ fail_once = TRUE
    /\ stepsDone = 0
    /\ log = <<>>
    /\ merged = <<>>
    /\ calls = <<>>
    /\ runSaves = 0
    /\ trace = <<>>
    /\ events = <<>>
    /\ StoreIdle
    /\ MergeIdle
    /\ MemoryIdle

\* The executor over the applications' graphs.
AppsStart == NewThread(Apps)

AppsStep ==
    \/ \E n \in active : \E out \in OutcomesAt(graph, n, state) : RunAttempt(n, out)
    \/ EndStep

AppsNext ==
    \/ \E input \in Inputs(graph) : Invoke(input)
    \/ \E input \in Inputs(graph) : InvokeAgain(input)
    \/ \E n \in active : \E out \in OutcomesAt(graph, n, state) : RunAttempt(n, out)
    \/ EndStep
    \/ CompleteSave

SpecApps == AppsStart /\ [][AppsNext]_vars

LiveApps == SpecApps /\ WF_vars(AppsStep)

\* 02-graph-patterns/retry.py invoked with any number, negative ones too.  A
\* run from a negative number goes on below every number; it is followed
\* until the number is -MaxDebt.
MaxDebt == 3

CountdownStart == NewThread({"retry02"})

CountdownStep ==
    \/ \E n \in active : state.number > -MaxDebt /\ RunAttempt(n, "ok")
    \/ EndStep

CountdownNext ==
    \/ \E n \in 1 - MaxDebt..MaxNumber : Invoke([number |-> n])
    \/ \E n \in active : state.number > -MaxDebt /\ RunAttempt(n, "ok")
    \/ EndStep
    \/ CompleteSave

SpecCountdown == CountdownStart /\ [][CountdownNext]_vars

LiveCountdown == SpecCountdown /\ WF_vars(CountdownStep)

\* The thread of the executor before any call, for the checkpointer's own
\* specification.
EngineIdle ==
    /\ graph = "durability"
    /\ durability = "exit"
    /\ status = "PENDING"
    /\ state = Blank(graph)
    /\ active = {}
    /\ attempts = <<>>
    /\ writes = <<>>
    /\ resume = NoValue
    /\ store = <<>>
    /\ inflight = <<>>
    /\ result = NoResult
    /\ fail_once = TRUE
    /\ stepsDone = 0
    /\ log = <<>>
    /\ merged = <<>>
    /\ calls = <<>>
    /\ runSaves = 0
    /\ trace = <<>>
    /\ events = <<>>

StoreInit == EngineIdle /\ StoreIdle /\ MergeIdle /\ MemoryIdle

StoreNext ==
    \/ \E config \in Configs, values \in CheckpointValues :
           put(config, <<>>, values, {"llm_chat_node"}, <<>>)
    \/ \E config \in Configs, checkpoint_id \in CheckpointIds :
           get_tuple(config, checkpoint_id)
    \/ \E config \in Configs : list(config)
    \/ \E t \in Threads : delete_thread(Str(t))

SpecStore == StoreInit /\ [][StoreNext]_vars

(***************************************************************************)
(* The state container on its own: partial updates merged one after the    *)
(* other into a state of one of the scripts' schemas.                      *)
(***************************************************************************)
Schemas == {"sequential", "durability", "retry02", "edge", "ComplexState",
            "stock"}

\* The states a thread of each schema holds after its input was merged.
InitialStates(sc) ==
    CASE sc = "sequential"   -> {[value |-> v] : v \in 0..1}
      [] sc = "durability"   -> {[url |-> "https://www.example.com",
                                  result |-> NoValue]}
      [] sc = "retry02"      -> {[number |-> n] : n \in 0..MaxNumber}
      [] sc = "edge"         -> {[messages |-> <<>>], [messages |-> <<UserQuery>>]}
      [] sc = "ComplexState" -> {[count |-> 0, messages |-> <<>>],
                                 [count |-> 0,
                                  messages |-> <<[id |-> 1, content |-> <<0, 1>>]>>]}
      [] sc = "stock"        -> {[messages |->
                                     add_messages(<<>>, <<HumanMessage("question")>>)]}

SchemaNodes(sc) ==
    CASE sc = "sequential" -> {"initialize", "increment", "double"}
      [] sc = "durability" -> {"call_api"}
      [] sc = "retry02"    -> {"print_node", "decrement_node"}
      [] sc = "edge"       -> {"greet", "search"}
      [] sc = "stock"      -> {"llm_node"}
      [] OTHER             -> {}

\* The result of node n's function on state s (external calls succeed).
SchemaCall(sc, n, s) ==
    CASE sc = "sequential" /\ n = "initialize" -> initialize_node(s)
      [] sc = "sequential" /\ n = "increment"  -> increment_node(s)
      [] sc = "sequential" /\ n = "double"     -> double_node(s)
      [] sc = "durability" /\ n = "call_api"   -> call_api(s, "ok")
      [] sc = "retry02" /\ n = "print_node"    -> print_node(s)
      [] sc = "retry02" /\ n = "decrement_node" -> decrement_node(s, FALSE).res
      [] sc = "edge" /\ n = "greet"            -> greet_node(s)
      [] sc = "edge" /\ n = "search"           -> search_node(s)
      [] sc = "stock" /\ n = "llm_node"        -> llm_node(s)

CallerIds == 0..MaxCallerId

\* The k-th update's messages: one or two messages whose ids the caller
\* chose, or left out (NoId).
MessageUpdates(k) ==
    {<<[id |-> i, content |-> <<k, 1>>]>> : i \in CallerIds}
    \cup {<<[id |-> i, content |-> <<k, 2>>], [id |-> j, content |-> <<k, 3>>]>> :
             i \in CallerIds, j \in CallerIds}

\* Partial updates a caller may merge as the k-th update (update_state, or
\* a node of another graph over the same schema).
CallerUpdates(sc, k) ==
    CASE sc = "durability" ->
             {<<>>}
             \cup {[result |-> r] : r \in {"a", "b"}}
             \cup {[url |-> u] : u \in {"a", "b"}}
             \cup {[url |-> u, result |-> r] : u \in {"a", "b"}, r \in {"a", "b"}}
      [] sc = "ComplexState" ->
             {<<>>, [count |-> k]}
             \cup {[messages |-> m] : m \in MessageUpdates(k)}
             \cup {[count |-> k, messages |-> m] :
                      m \in {u \in MessageUpdates(k) : Len(u) = 1}}
      [] sc = "edge" ->
             {[messages |-> <<>>], [messages |-> <<UserQuery, Greeting>>]}
      [] OTHER -> {}

MergeInit ==
    /\ schema \in Schemas
    /\ initial \in InitialStates(schema)
    /\ current = initial
    /\ applied = <<>>

\* A node's update is merged into the state.
ApplyNode(n) ==
    /\ Len(applied) < MaxUpdates
    /\ LET res == SchemaCall(schema, n, current)
       IN  /\ res.kind = "update"
           /\ current' = Merge(schema, current, res.update)
           /\ applied' = Append(applied, [src |-> n, part |-> res.update,
                                          prev |-> current, again |-> FALSE])
    /\ UNCHANGED <<schema, initial, engineVars, storeVars, memoryVars>>

\* A caller's update is merged into the state.
ApplyUpdate(part) ==
    /\ Len(applied) < MaxUpdates
    /\ current' = Merge(schema, current, part)
    /\ applied' = Append(applied, [src |-> "caller", part |-> part,
                                   prev |-> current, again |-> FALSE])
    /\ UNCHANGED <<schema, initial, engineVars, storeVars, memoryVars>>

\* The update merged last is merged a second time.
ApplyAgain ==
    /\ applied # <<>>
    /\ Len(applied) < MaxUpdates
    /\ LET last == applied[Len(applied)]
       IN  /\ current' = Merge(schema, current, last.part)
           /\ applied' = Append(applied, [src |-> last.src, part |-> last.part,
                                          prev |-> current, again |-> TRUE])
    /\ UNCHANGED <<schema, initial, engineVars, storeVars, memoryVars>>

MergeNext ==
    \/ \E n \in SchemaNodes(schema) : ApplyNode(n)
    \/ \E part \in CallerUpdates(schema, Len(applied) + 1) : ApplyUpdate(part)
    \/ ApplyAgain

MergeStart == EngineIdle /\ StoreIdle /\ MergeInit /\ MemoryIdle

SpecMerge == MergeStart /\ [][MergeNext]_vars

(***************************************************************************)
(* graph_persistence/long_term_memory: memory_node over an InMemoryStore   *)
(* (inmemorystore.py) and over the store and a Chroma collection           *)
(* (hybrid_inmemorystore_chroma.py).                                       *)
(***************************************************************************)
\* Runs of memory_node the model follows.
MaxMemories == 2

MemoryScripts == {"inmemorystore", "hybrid_inmemorystore_chroma"}

\* config["configurable"]["user_id"]: absent, or the one the scripts pass.
UserIds == {"anonymous", "user-123"}

\* f"event-{uuid.uuid4().hex[:8]}": two of the keys a run may draw.
EventKeys == {"event-0a1b2c3d", "event-4e5f6a7b"}

TypedMessage(type, content) == [id |-> NoId, type |-> type, content |-> content]

\* state["messages"] when memory_node runs: the thread's history and the
\* user's new message.
MemoryInputs ==
    {<<TypedMessage("ai", "response")>>,
     <<TypedMessage("human", "hi")>>,
     <<TypedMessage("human", "hi"), TypedMessage("ai", "response"),
       TypedMessage("human", "bye")>>}

user_ns(user_id) == <<user_id, "chatbot">>

\* "/".join(ns)
JoinNs(ns) == ns[1] \o "/" \o ns[2]

\* store.get(ns, key): the item's value, or None.
store_get(its, ns, key) ==
    LET hit == {i \in 1..Len(its) : its[i].namespace = ns /\ its[i].key = key}
    IN  IF hit = {} THEN None ELSE its[CHOOSE i \in hit : TRUE].value

\* store.put(ns, key, value): a new item, or the new value of the item that
\* has the key.
store_put(its, ns, key, value) ==
    LET hit == {i \in 1..Len(its) : its[i].namespace = ns /\ its[i].key = key}
        item == [namespace |-> ns, key |-> key, value |-> value]
    IN  IF hit = {} THEN Append(its, item)
        ELSE [its EXCEPT ![CHOOSE i \in hit : TRUE] = item]

\* A value passes a filter when it has each of the filter's keys with the
\* filter's value.
Satisfies(value, filter) ==
    \A k \in DOMAIN filter : k \in DOMAIN value /\ value[k] = filter[k]

\* store.search(ns, filter=..., query=..., limit=...): the items of the
\* namespace that pass the filter, at most limit of them.  embed gives every
\* text the same vector, so the scores are equal and the order is the
\* store's.
store_search(its, ns, filter, limit) ==
    LET found == SelectSeq(its, LAMBDA it :
                     it.namespace = ns /\ Satisfies(it.value, filter))
    IN  SubSeq(found, 1, IF Len(found) < limit THEN Len(found) ELSE limit)

ProfileValue ==
    [name |-> "Alice", preferences |-> <<"short replies", "English", "Python">>,
     type |-> "profile"] @@ ("my-key" :> "my-value")

ensure_profile(sc, its, ns) ==
    IF store_get(its, ns, "profile") = None
    THEN store_put(its, ns, "profile",
                   IF sc = "inmemorystore" THEN ProfileValue
                   ELSE ProfileValue @@ [ns |-> JoinNs(ns)])
    ELSE its

\* write_episodic_event of inmemorystore.py
write_episodic_event(its, ns, user_msg, key, now) ==
    store_put(its, ns, key,
              [timestamp |-> now, interaction |-> user_msg, type |-> "event"])

\* write_event of hybrid_inmemorystore_chroma.py
write_event(its, ns, user_msg, key, now) ==
    store_put(its, ns, key,
              [timestamp |-> now, interaction |-> user_msg, type |-> "event",
               ns |-> JoinNs(ns)])

RecallFilter == "my-key" :> "my-value"

ProfileSnippet(val) == [kind |-> "Profile prefs", text |-> val.preferences]

EventSnippet(val) ==
    [kind |-> "Past event", text |-> val.interaction, at |-> val.timestamp]

RECURSIVE SnippetsOf(_, _)
SnippetsOf(sc, results) ==
    IF results = <<>>
    THEN <<>>
    ELSE LET val == Head(results).value
             is_event == IF sc = "inmemorystore"
                         THEN "interaction" \in DOMAIN val
                         ELSE "type" \in DOMAIN val /\ val.type = "event"
         IN  (IF "preferences" \in DOMAIN val
              THEN <<ProfileSnippet(val)>> ELSE <<>>)
             \o (IF is_event THEN <<EventSnippet(val)>> ELSE <<>>)
             \o SnippetsOf(sc, Tail(results))

\* recall_memories of inmemorystore.py
recall_memories(its, ns, limit) ==
    SnippetsOf("inmemorystore", store_search(its, ns, RecallFilter, limit))

\* recall_from_store of hybrid_inmemorystore_chroma.py
recall_from_store(its, ns, limit) ==
    SnippetsOf("hybrid_inmemorystore_chroma",
               store_search(its, ns, RecallFilter, limit))

\* vector.upsert(ids=[doc_id], documents=[text], metadatas=[metadata])
upsert_chroma(vec, ns, key, text, metadata) ==
    LET doc_id == <<ns[1], ns[2], key>>
        doc == [id |-> doc_id, page_content |-> text, metadata |-> metadata]
        hit == {i \in 1..Len(vec) : vec[i].id = doc_id}
    IN  IF hit = {} THEN Append(vec, doc)
        ELSE [vec EXCEPT ![CHOOSE i \in hit : TRUE] = doc]

\* vector.similarity_search_with_score(query, k=k, filter={"ns": ...}): k of
\* the namespace's documents, or all when there are fewer, in the order of
\* their scores, which the embedding model decides.
SimilaritySearches(vec, ns, k) ==
    LET match == {i \in 1..Len(vec) : vec[i].metadata.ns = JoinNs(ns)}
        n == IF Cardinality(match) < k THEN Cardinality(match) ELSE k
    IN  {[j \in 1..n |-> vec[f[j]]] :
             f \in {g \in [1..n -> match] :
                        \A a, b \in 1..n : a # b => g[a] # g[b]}}

\* recall_from_chroma's snippets of the documents a search found.
recall_from_chroma(found) ==
    [j \in 1..Len(found) |->
        IF found[j].metadata.kind = "event"
        THEN [kind |-> "Past event", text |-> found[j].page_content]
        ELSE [kind |-> "document", text |-> found[j].page_content]]

\* The content of the last HumanMessage, "" when there is none.
UserText(msgs) ==
    LET humans == {i \in 1..Len(msgs) : msgs[i].type = "human"}
    IN  IF humans = {} THEN "" ELSE msgs[Max(humans)].content

\* memory_node: ensure the profile, write the event, recall.
memory_node(user_id, msgs, key) ==
    /\ Len(remembered) < MaxMemories
    /\ LET ns == user_ns(user_id)
           user_text == UserText(msgs)
           now == Len(remembered) + 1
           profiled == ensure_profile(script, items, ns)
       IN  /\ remembered' = Append(remembered,
                                   [ns |-> ns, text |-> user_text, key |-> key])
           /\ IF script = "inmemorystore"
              THEN LET stored == write_episodic_event(profiled, ns, user_text,
                                                      key, now)
                   IN  /\ items' = stored
                       /\ memory_context' = recall_memories(stored, ns, 3)
                       /\ UNCHANGED vector
              ELSE LET stored == write_event(profiled, ns, user_text, key, now)
                       docs == upsert_chroma(vector, ns, key,
                                   "event: " \o user_text,
                                   [kind |-> "event", ns |-> JoinNs(ns)])
                   IN  /\ items' = stored
                       /\ vector' = docs
                       /\ \E found \in SimilaritySearches(docs, ns, 3) :
                              memory_context' =
                                  recall_from_store(stored, ns, 3)
                                      \o recall_from_chroma(found)
    /\ UNCHANGED <<script, engineVars, storeVars, mergeVars>>

MemoryStart ==
    /\ EngineIdle /\ StoreIdle /\ MergeIdle
    /\ script \in MemoryScripts
    /\ items = <<>>
    /\ vector = <<>>
    /\ memory_context = <<>>
    /\ remembered = <<>>

MemoryNext ==
    \E user_id \in UserIds, msgs \in MemoryInputs, key \in EventKeys :
        memory_node(user_id, msgs, key)

SpecMemory == MemoryStart /\ [][MemoryNext]_vars

(***************************************************************************)
(* Properties of the executor, checked under Spec.                         *)
(***************************************************************************)
Succeeded(e) == e.outcome \in {"update", "command"}

\* The attempts of node n in step st of call c.
Group(c, st, n) ==
    {j \in 1..Len(log) : log[j].call = c /\ log[j].step = st /\ log[j].node = n}

GroupOf(i) == Group(log[i].call, log[i].step, log[i].node)

NodesOfCall(c) ==
    LET RECURSIVE pick(_)
        pick(j) == IF j > Len(log) THEN <<>>
                   ELSE (IF log[j].call = c THEN <<log[j].node>> ELSE <<>>)
                        \o pick(j + 1)
    IN  pick(1)

IsPrefix(a, b) == Len(a) <= Len(b) /\ \A i \in 1..Len(a) : a[i] = b[i]

\* C1: when a node raises an interrupt, no node of a later step runs in that
\* invocation; the invocation ends INTERRUPTED with the node in the pending
\* set of the thread's latest checkpoint and the payload returned to the
\* caller.  In interrupt.py the first invocation runs node_a and node_b only
\* and ends INTERRUPTED.
C1_InterruptHalts ==
    /\ \A i \in 1..Len(log) :
          log[i].outcome = "interrupt" =>
             /\ \A j \in (i + 1)..Len(log) :
                   log[j].call = log[i].call => log[j].step = log[i].step
             /\ (i = Len(log) /\ status # "RUNNING") =>
                   /\ status = "INTERRUPTED"
                   /\ inflight = <<>>
                   /\ log[i].node \in load_latest(store).next
                   /\ load_latest(store).values = state
                   /\ Len(calls) = log[i].call =>
                         /\ result.kind = "interrupt"
                         /\ result.payload = InterruptPrompt
    /\ graph = "interrupt" =>
          /\ \A i \in 1..Len(log) :
                calls[log[i].call].kind = "invoke" =>
                   log[i].node \in {"node_a", "node_b"}
          /\ (calls # <<>> /\ calls[Len(calls)].kind = "invoke"
                /\ status # "RUNNING") => status = "INTERRUPTED"

C1_Witness ==
    /\ graph = "interrupt"
    /\ status = "INTERRUPTED"
    /\ log # <<>>
    /\ log[Len(log)].node = "node_b"
    /\ log[Len(log)].outcome = "interrupt"
    /\ result.kind = "interrupt"
    /\ load_latest(store).next = {"node_b"}

ResumeContinues ==
    \A c \in 1..Len(calls) :
       (calls[c].kind = "resume" /\ calls[c].accepted) =>
          LET ran == NodesOfCall(c)
              last == IF calls[c].value = "C" THEN "node_c" ELSE "node_d"
              cps == {k \in 1..Len(store) : store[k].next = calls[c].pending}
          IN  /\ (ran = <<>> /\ c = Len(calls)) =>
                    /\ status = "RUNNING"
                    /\ state = load_latest(store).values
                    /\ active = load_latest(store).next
                    /\ active = calls[c].pending
                    /\ resume = calls[c].value
              /\ ran # <<>> => ran[1] \in calls[c].pending
              /\ graph = "interrupt" =>
                    /\ IsPrefix(ran, <<"node_b", last>>)
                    /\ \A j \in 1..Len(log) :
                          log[j].call = c => Succeeded(log[j])
                    /\ status \in {"RUNNING", "COMPLETED"}
                    /\ status = "COMPLETED" =>
                          /\ ran = <<"node_b", last>>
                          /\ cps # {}
                          /\ \A k \in cps :
                                state.value = store[k].values.value
                                   \o <<"b", IF last = "node_c" THEN "c" ELSE "d">>

\* C2: an accepted resume starts from the latest checkpoint, runs the pending
\* node first, which now returns instead of suspending; in interrupt.py the
\* resumed call runs node_b, then node_c (value "C") or node_d, never node_a,
\* and it always reaches COMPLETED, with the checkpointed value extended by
\* "b" and "c"/"d".
C2_ResumeCompletes ==
    /\ []ResumeContinues
    /\ [](/\ graph = "interrupt"
          /\ calls # <<>>
          /\ calls[Len(calls)].kind = "resume"
          /\ calls[Len(calls)].accepted
          => <>(status = "COMPLETED"))

C2_Witness ==
    /\ graph = "interrupt"
    /\ status = "COMPLETED"
    /\ \E c \in 1..Len(calls) :
          /\ calls[c].kind = "resume"
          /\ calls[c].accepted
          /\ calls[c].value = "C"
          /\ NodesOfCall(c) = <<"node_b", "node_c">>

ResumeMismatch(call) ==
    /\ call.kind = "resume"
    /\ \/ call.before # "INTERRUPTED"
       \/ call.key # NoKey /\ call.key \notin call.pending

\* C3: a resume for a thread with no pending interrupt, or keyed by an
\* identifier that is not the pending one, is rejected with
\* ResumeMismatchError and runs no node.
C3_ResumeMismatchRejected ==
    \A c \in 1..Len(calls) :
       ResumeMismatch(calls[c]) =>
          /\ ~calls[c].accepted
          /\ \A j \in 1..Len(log) : log[j].call # c
          /\ c = Len(calls) =>
                /\ result.kind = "error"
                /\ result.error = "ResumeMismatchError"
                /\ status = calls[c].before

C3_Witness ==
    /\ calls # <<>>
    /\ calls[Len(calls)].kind = "resume"
    /\ calls[Len(calls)].before = "INTERRUPTED"
    /\ calls[Len(calls)].key = "approval_request"
    /\ result.kind = "error"
    /\ result.error = "ResumeMismatchError"
    /\ status = "INTERRUPTED"

MergesOf(c, st, n) ==
    {k \in 1..Len(merged) :
        merged[k].call = c /\ merged[k].step = st /\ merged[k].node = n}

Decrements == {k \in 1..Len(merged) : merged[k].node = "decrement_node"}

\* C4: a node whose attempt succeeds after failed attempts has been invoked
\* exactly as many times as the number of that attempt, at most max_attempts,
\* is not invoked again in the step, and once the step has ended its update
\* has been merged exactly once and the run has not failed in that step.  In
\* 02-graph-patterns/retry.py the run never fails and number has gone down by
\* exactly one per merged decrement.
C4_RetryThenSuccess ==
    /\ \A i \in 1..Len(log) :
          Succeeded(log[i]) =>
             LET e == log[i]
                 g == GroupOf(i)
             IN  /\ Cardinality(g) = e.attempt
                 /\ e.attempt <= RetryPolicyOf(graph, e.node).max_attempts
                 /\ \A j \in g : j # i =>
                       /\ j < i
                       /\ log[j].outcome = "raise"
                       /\ Retryable(RetryPolicyOf(graph, e.node), log[j].exc)
                 /\ {log[j].attempt : j \in g} = 1..e.attempt
                 /\ Cardinality(MergesOf(e.call, e.step, e.node)) =
                       (IF stepsDone >= e.step THEN 1 ELSE 0)
                 /\ stepsDone >= e.step \/ status = "RUNNING"
    /\ graph = "retry02" =>
          /\ status # "FAILED"
          /\ calls # <<>> /\ calls[Len(calls)].kind = "invoke" =>
                state.number = calls[Len(calls)].input.number - Cardinality(Decrements)

C4_Witness ==
    /\ graph = "retrydb"
    /\ stepsDone >= 1
    /\ \E i \in 1..Len(log) :
          /\ log[i].node = "model"
          /\ Succeeded(log[i])
          /\ log[i].attempt = MaxAttemptsModel
          /\ Cardinality(MergesOf(log[i].call, log[i].step, "model")) = 1

AllFailedRetryably(g, n) ==
    \A j \in g : /\ log[j].outcome = "raise"
                 /\ Retryable(RetryPolicyOf(graph, n), log[j].exc)

\* C5: a node whose every attempt fails with a retryable failure is retried
\* while attempts remain and is never invoked more than max_attempts times;
\* at max_attempts the run is FAILED and the caller gets the node, the
\* attempt count and the last failure.
C5_RetryExhausted ==
    \A i \in 1..Len(log) :
       LET e == log[i]
           g == GroupOf(i)
           policy == RetryPolicyOf(graph, e.node)
       IN  /\ Cardinality(g) <= policy.max_attempts
           /\ (AllFailedRetryably(g, e.node) /\ e.attempt = Cardinality(g)) =>
                 IF e.attempt < policy.max_attempts
                 THEN status = "RUNNING" /\ result.kind # "error"
                 ELSE /\ status = "FAILED"
                      /\ i = Len(log)
                      /\ Len(calls) = e.call =>
                            /\ result.kind = "error"
                            /\ result.error = "NodeExecutionError"
                            /\ result.node = e.node
                            /\ result.attempts = policy.max_attempts
                            /\ result.exc = e.exc

C5_Witness ==
    /\ graph = "retrydb"
    /\ status = "FAILED"
    /\ result.kind = "error"
    /\ result.error = "NodeExecutionError"
    /\ result.node = "model"
    /\ result.attempts = MaxAttemptsModel
    /\ Cardinality(Group(1, 1, "model")) = MaxAttemptsModel

C7_SyncLatest ==
    (durability = "sync" /\ stepsDone > 0) =>
       /\ store # <<>>
       /\ inflight = <<>>
       /\ load_latest(store).step = stepsDone
       /\ load_latest(store).values = state

C7_Witness ==
    /\ durability = "sync"
    /\ status = "RUNNING"
    /\ stepsDone >= 2
    /\ writes = <<>>
    /\ load_latest(store).step = stepsDone
    /\ load_latest(store).values = state

Runs == {c \in 1..Len(calls) : calls[c].accepted}

\* C8: under "exit" nothing is saved while a run is in progress, so the
\* store holds only the checkpoints of the runs that ended before, and every
\* run that has ended saved exactly once.
C8_ExitSavesOnce ==
    durability = "exit" =>
       /\ inflight = <<>>
       /\ status = "RUNNING" =>
             /\ runSaves = 0
             /\ Len(store) = Cardinality(Runs) - 1
       /\ (status # "RUNNING" /\ Runs # {}) =>
             /\ runSaves = 1
             /\ Len(store) = Cardinality(Runs)
             /\ load_latest(store).values = state

C8_Witness ==
    /\ durability = "exit"
    /\ status = "COMPLETED"
    /\ stepsDone >= 3
    /\ Len(store) = 1
    /\ runSaves = 1

(***************************************************************************)
(* Properties of MongoDBCheckpointSaver, checked under SpecStore.          *)
(***************************************************************************)
\* The thread a config names, wherever the config keeps the thread id.
ThreadOf(config) ==
    IF "configurable" \in DOMAIN config
    THEN config.configurable.thread_id
    ELSE config.thread_id

\* The stored checkpoints that were saved under thread t, oldest first.
SavedUnder(t) == SelectSeq(collection, LAMBDA d : ThreadOf(d.config) = t)

IsFlat(config) == "thread_id" \in DOMAIN config

\* C9: get_tuple(config) without a checkpoint id returns the most recently
\* saved checkpoint of config's thread, and None when the thread has none
\* (stated for configs that keep thread_id at top level, where the thread
\* query itself is right).
C9_GetTupleIsLatest ==
    (/\ lastOp.op = "get_tuple"
     /\ lastOp.checkpoint_id = PyNone
     /\ IsFlat(lastOp.config)
     /\ \A k \in 1..Len(collection) : IsFlat(collection[k].config)) =>
       LET mine == SavedUnder(ThreadOf(lastOp.config))
       IN  IF mine = <<>>
           THEN ~lastOp.result.found
           ELSE /\ lastOp.result.found
                /\ lastOp.result.doc = mine[Len(mine)]

\* C10: list and get_tuple for a thread return only checkpoints saved under
\* that thread.
C10_ThreadsIsolated ==
    /\ lastOp.op = "list" =>
          \A k \in 1..Len(lastOp.result) :
             ThreadOf(lastOp.result[k].config) = ThreadOf(lastOp.config)
    /\ (lastOp.op = "get_tuple" /\ lastOp.result.found) =>
          ThreadOf(lastOp.result.doc.config) = ThreadOf(lastOp.config)

\* The checkpoints of sequence coll that were saved under thread t.
OfThread(coll, t) == SelectSeq(coll, LAMBDA d : ThreadOf(d.config) = t)

\* C11: the checkpoints of a thread carry strictly increasing ids in the
\* order they were saved, and list(config) returns all of the checkpoints of
\* config's thread, oldest first.
C11_ListOldestFirst ==
    /\ \A i, j \in 1..Len(collection) :
          (i < j /\ ThreadOf(collection[i].config) = ThreadOf(collection[j].config))
             => collection[i].id[2] < collection[j].id[2]
    /\ lastOp.op = "list" =>
          lastOp.result = SavedUnder(ThreadOf(lastOp.config))

\* C12: get_tuple(config, checkpoint_id) with an id that put returned for
\* config's thread returns the checkpoint put stored under that id, and
\* None for an id under which the thread holds no checkpoint (stated for
\* configs that keep thread_id at top level).
C12_SaveLoadRoundTrip ==
    (/\ lastOp.op = "get_tuple"
     /\ lastOp.checkpoint_id # PyNone
     /\ IsFlat(lastOp.config)
     /\ \A k \in 1..Len(collection) : IsFlat(collection[k].config)) =>
       LET mine == SelectSeq(SavedUnder(ThreadOf(lastOp.config)),
                             LAMBDA d : str(d.id) = lastOp.checkpoint_id)
       IN  IF mine = <<>>
           THEN ~lastOp.result.found
           ELSE /\ lastOp.checkpoint_id \in returned
                /\ lastOp.result.found
                /\ lastOp.result.doc = mine[1]

\* C13: delete_thread(T) removes every checkpoint saved under thread T and
\* returns their number, and leaves the checkpoints of every other thread
\* as they were.
C13_DeleteThread ==
    lastOp.op = "delete_thread" =>
       /\ SavedUnder(lastOp.thread_id) = <<>>
       /\ lastOp.result = Len(OfThread(lastOp.before, lastOp.thread_id))
       /\ \A u \in Threads :
             Str(u) # lastOp.thread_id =>
                SavedUnder(Str(u)) = OfThread(lastOp.before, Str(u))

(***************************************************************************)
(* Properties of the state container, checked under SpecMerge.             *)
(***************************************************************************)
\* The state after the i-th update was merged.
After(i) == IF i = Len(applied) THEN current ELSE applied[i + 1].prev

\* The updates that contain key.
Writers(key) == {i \in 1..Len(applied) : key \in DOMAIN applied[i].part}

\* The values the first i updates gave for a sequence field, one after the
\* other.
RECURSIVE PartsOf(_, _)
PartsOf(key, i) ==
    IF i = 0 THEN <<>>
    ELSE PartsOf(key, i - 1)
         \o (IF key \in DOMAIN applied[i].part THEN applied[i].part[key] ELSE <<>>)

\* C14: after any sequence of partial updates, every field with the replace
\* reducer holds the value of the last update that contained it, and its
\* initial value when no update contained it.
C14_ReplaceLastWins ==
    \A key \in DOMAIN current :
       Reducer(schema, key) = "replace" =>
          current[key] = IF Writers(key) = {} THEN initial[key]
                         ELSE applied[Max(Writers(key))].part[key]

\* Two fields written by several updates, the last writers differing.
C14_Witness ==
    /\ schema = "durability"
    /\ Cardinality(Writers("url")) >= 2
    /\ Writers("result") # {}
    /\ Max(Writers("url")) < Max(Writers("result"))
    /\ \E i \in Writers("url") : applied[i].part.url # current.url
    /\ current.url # initial.url

\* A message sequence in which no id occurs twice.
NoCollisions(msgs) ==
    \A i, j \in 1..Len(msgs) :
       (i < j /\ msgs[i].id # NoId) => msgs[i].id # msgs[j].id

\* C15: a field with the append reducer holds the initial value followed by
\* the updates in merge order (operator.add); with add_messages and no two
\* items of the same id the same holds of the messages' contents and chosen
\* ids, so the length is the sum of the input lengths.
C15_AppendConcatenates ==
    /\ schema = "edge" =>
          /\ current.messages = initial.messages \o PartsOf("messages", Len(applied))
          /\ \A i \in 1..Len(applied) :
                Len(After(i).messages)
                   = Len(applied[i].prev.messages) + Len(applied[i].part.messages)
    /\ schema \in {"ComplexState", "stock"} =>
          LET incoming == initial.messages \o PartsOf("messages", Len(applied))
          IN  NoCollisions(incoming) =>
                 /\ Len(current.messages) = Len(incoming)
                 /\ \A i \in 1..Len(incoming) :
                       /\ current.messages[i].content = incoming[i].content
                       /\ incoming[i].id # NoId =>
                             current.messages[i].id = incoming[i].id

\* The search script's second invocation: query, greeting, search result.
C15_Witness ==
    /\ schema = "edge"
    /\ initial.messages = <<UserQuery>>
    /\ Len(applied) >= 2
    /\ applied[1].src = "greet"
    /\ applied[2].src = "search"
    /\ Len(After(2).messages) = 3
    /\ After(2).messages[3] # After(2).messages[2]

\* The ids of a message sequence.
IdsOf(msgs) == {msgs[i].id : i \in 1..Len(msgs)}

\* The last item of msgs that has id, when there is one.
LastWithId(msgs, id) ==
    msgs[Max({r \in 1..Len(msgs) : msgs[r].id = id})]

\* C16: merging messages with add_messages, an incoming message whose id
\* equals that of an existing message replaces it where it stands; the
\* other existing messages stay as they are and only messages with a new id
\* or without an id add to the length.  A node that returns the whole list
\* plus one new message (llm_node) grows the list by exactly one.
C16_UpsertInPlace ==
    \A i \in 1..Len(applied) :
       (Reducer(schema, "messages") = "add_messages"
          /\ "messages" \in DOMAIN applied[i].part) =>
          LET old == applied[i].prev.messages
              new == applied[i].part.messages
              out == After(i).messages
              fresh == {r \in 1..Len(new) : new[r].id = NoId}
              added == (IdsOf(new) \ {NoId}) \ IdsOf(old)
          IN  /\ Len(out) = Len(old) + Cardinality(fresh) + Cardinality(added)
              /\ \A q \in 1..Len(old) :
                    out[q] = IF old[q].id \in IdsOf(new)
                             THEN LastWithId(new, old[q].id)
                             ELSE old[q]
              /\ applied[i].src = "llm_node" =>
                    /\ Len(out) = Len(old) + 1
                    /\ SubSeq(out, 1, Len(old)) = old

\* An existing message that is not the last one is overwritten where it
\* stands, with a different content.
C16_Witness ==
    /\ schema = "ComplexState"
    /\ applied # <<>>
    /\ LET e == applied[Len(applied)]
       IN  /\ "messages" \in DOMAIN e.part
           /\ Len(e.prev.messages) >= 2
           /\ e.prev.messages[1].id \in IdsOf(e.part.messages)
           /\ Len(current.messages) = Len(e.prev.messages)
           /\ current.messages[1] # e.prev.messages[1]
           /\ current.messages[1].id = e.prev.messages[1].id

C18_TwiceIsOnce ==
    \A i \in 1..Len(applied) :
       applied[i].again =>
          \A key \in DOMAIN applied[i].part :
             LET once == applied[i].prev[key]
                 twice == After(i)[key]
                 new == applied[i].part[key]
             IN  CASE Reducer(schema, key) = "replace" -> twice = once
                   [] Reducer(schema, key) = "add_messages" ->
                         NoId \notin IdsOf(new) => twice = once
                   [] Reducer(schema, key) = "operator.add" ->
                         /\ twice = once \o new
                         /\ Len(twice) = Len(once) + Len(new)
                         /\ new # <<>> => twice # once

\* A greeting merged twice stands twice in the list.
C18_Witness ==
    /\ schema = "edge"
    /\ Len(applied) = 2
    /\ applied[2].again
    /\ applied[2].src = "greet"
    /\ current.messages = initial.messages \o <<Greeting, Greeting>>

(***************************************************************************)
(* Replay, checked under SpecReplay.                                       *)
(***************************************************************************)
\* The steps call c completed.
StepsOf(c) == SelectSeq(trace, LAMBDA e : e.call = c)

\* The steps that continued step p before call c was made: the rest of p's
\* run and, when it was interrupted and then resumed, the resumed run.
RECURSIVE Following(_, _)
Following(p, c) ==
    IF \/ p + 1 > Len(trace)
       \/ trace[p].status \in {"COMPLETED", "FAILED"}
       \/ trace[p + 1].call >= c
    THEN <<>>
    ELSE IF \/ trace[p + 1].call = trace[p].call
            \/ /\ trace[p].status = "INTERRUPTED"
               /\ \A d \in (trace[p].call + 1)..trace[p + 1].call :
                     calls[d].kind = "resume"
         THEN <<trace[p + 1]>> \o Following(p + 1, c)
         ELSE <<>>

\* What followed the checkpoint numbered seq the first time, before call c.
Continuation(c, seq) ==
    LET at == {p \in 1..Len(trace) : trace[p].cp = seq /\ trace[p].call < c}
    IN  IF at = {} THEN <<>> ELSE Following(Max(at), c)

\* The nodes of step a gave what they gave in step b, under the same resume
\* value.
SameOutputs(a, b) == a.rv = b.rv /\ a.writes = b.writes

\* C19: a replay from a stored checkpoint in which the nodes give the same
\* outputs as they did after that checkpoint the first time goes through the
\* same states, pending sets and statuses, and ends in the same final state.
C19_ReplayReproduces ==
    \A c \in 1..Len(calls) :
       calls[c].kind = "replay" =>
          LET mine == StepsOf(c)
              orig == Continuation(c, calls[c].from)
              same(j) == \A i \in 1..j : SameOutputs(mine[i], orig[i])
          IN  /\ \A j \in 1..Len(mine) :
                    (j <= Len(orig) /\ same(j)) =>
                       /\ mine[j].before = orig[j].before
                       /\ mine[j].after = orig[j].after
                       /\ mine[j].next = orig[j].next
                       /\ mine[j].status = orig[j].status
              /\ (/\ c = Len(calls)
                  /\ status \in {"COMPLETED", "INTERRUPTED"}
                  /\ Len(mine) <= Len(orig)
                  /\ same(Len(mine))) =>
                    IF status = "COMPLETED"
                    THEN /\ Len(mine) = Len(orig)
                         /\ orig # <<>> => state = orig[Len(orig)].after
                    ELSE /\ mine # <<>>
                         /\ mine[Len(mine)].status = "INTERRUPTED"

\* A replay of two or more steps from a checkpoint saved in the middle of a
\* run, completed with the state the original run completed with.
C19_Witness ==
    /\ Len(calls) >= 2
    /\ calls[Len(calls)].kind = "replay"
    /\ status = "COMPLETED"
    /\ LET c == Len(calls)
           mine == StepsOf(c)
           orig == Continuation(c, calls[c].from)
       IN  /\ Len(mine) >= 2
           /\ Len(mine) = Len(orig)
           /\ \A i \in 1..Len(mine) : SameOutputs(mine[i], orig[i])
           /\ state = orig[Len(orig)].after
           /\ state # mine[1].before

(***************************************************************************)
(* The execution status, checked under Spec.                               *)
(***************************************************************************)
StatusMoves ==
    {<<"PENDING", "RUNNING">>, <<"RUNNING", "COMPLETED">>,
     <<"RUNNING", "INTERRUPTED">>, <<"RUNNING", "FAILED">>,
     <<"INTERRUPTED", "RUNNING">>}

\* C20: the status moves only PENDING -> RUNNING -> COMPLETED, INTERRUPTED
\* or FAILED; INTERRUPTED is left only for RUNNING and only by a resume
\* call; COMPLETED and FAILED are never left; a node is attempted only while
\* the status is RUNNING.
C20_StatusMoves ==
    [][/\ status' # status => <<status, status'>> \in StatusMoves
       /\ (status = "INTERRUPTED" /\ status' # status) =>
             /\ Len(calls') = Len(calls) + 1
             /\ calls'[Len(calls')].kind = "resume"
       /\ status \in {"COMPLETED", "FAILED"} => status' = status
       /\ log' # log => status = "RUNNING"]_vars

\* A thread that was interrupted, resumed and completed, and on which a
\* later resume was refused.
C20_Witness ==
    /\ status = "COMPLETED"
    /\ \E p \in 1..Len(trace) : trace[p].status = "INTERRUPTED"
    /\ trace[Len(trace)].status = "COMPLETED"
    /\ Len(calls) = 3
    /\ calls[2].kind = "resume" /\ calls[2].accepted
    /\ calls[3].kind = "resume" /\ ~calls[3].accepted
    /\ calls[3].before = "COMPLETED"

(***************************************************************************)
(* Routing: conditional edges, commands, loops and chains.                 *)
(***************************************************************************)
LastStep == trace[Len(trace)]

\* The nodes of completed step e whose router returned a label that names
\* no destination: not a key of the node's label table.
Unresolved(e) ==
    {w \in e.writes :
        /\ w.res.kind = "update"
        /\ w.node \in ConditionalSources(graph)
        /\ Router(graph, w.node, e.after) \notin RouterExceptions
        /\ Router(graph, w.node, e.after) \notin DOMAIN LabelMap(graph, w.node)}

\* C21: when the router of a conditional edge returns a label that resolves
\* to no registered destination, the step fails with RoutingError: the run is
\* FAILED with that error and stays so (it never reaches COMPLETED), the
\* last node that ever executed is the one the router belongs to, and
\* RoutingError is reported for no other reason.
C21_UnknownLabelFails ==
    /\ \A p \in 1..Len(trace) :
           Unresolved(trace[p]) # {} =>
               /\ trace[p].status = "FAILED"
               /\ trace[p].next = {}
               /\ p = Len(trace)
               /\ status = "FAILED"
               /\ active = {}
               /\ result.kind = "error" /\ result.error = "RoutingError"
               /\ log[Len(log)].node \in {w.node : w \in trace[p].writes}
    /\ (result.kind = "error" /\ result.error = "RoutingError") =>
           /\ trace # <<>>
           /\ Unresolved(LastStep) # {}

\* interrupt_before.py: the model asked for a tool, tools_router returned
\* "tools", and the run failed.
C21_Witness ==
    /\ graph = "interrupt_before"
    /\ status = "FAILED"
    /\ result.kind = "error" /\ result.error = "RoutingError"
    /\ trace # <<>>
    /\ \E w \in Unresolved(LastStep) :
           w.node = "model" /\ Router(graph, "model", LastStep.after) = "tools"

\* The Commands returned in completed step e.
CommandsOf(e) == {w \in e.writes : w.res.kind = "command"}

\* C22: a Command returned by a node overrides the edge table for that step:
\* the next active set is exactly the Command's goto.  In multiturn.py, when
\* human_node is resumed with "done" it goes to end_node: the direct edge
\* human_node -> model is not followed, model does not execute again and the
\* run is COMPLETED after end_node; resumed with anything else it goes to
\* model and nowhere else.
C22_CommandOverridesEdges ==
    \A p \in 1..Len(trace) : \A w \in CommandsOf(trace[p]) :
        /\ trace[p].next = w.res.goto \ {END}
        /\ (graph = "multiturn" /\ w.node = "human_node") =>
               /\ w.res.goto = IF lower(trace[p].rv) = "done"
                               THEN {"end_node"} ELSE {"model"}
               /\ w.res.goto = {"model"} =>
                      /\ trace[p].next = {"model"}
                      /\ IF p = Len(trace) THEN active = {"model"}
                         ELSE trace[p + 1].active = {"model"}
               /\ w.res.goto = {"end_node"} =>
                      /\ trace[p].next = {"end_node"}
                      /\ IF p = Len(trace)
                         THEN status = "RUNNING" /\ active = {"end_node"}
                         ELSE /\ p + 1 = Len(trace)
                              /\ trace[p + 1].active = {"end_node"}
                              /\ trace[p + 1].status = "COMPLETED"
                              /\ status = "COMPLETED"
                              /\ log[Len(log)].node = "end_node"

\* multiturn.py: feedback that sent the run back to model, then "done", and
\* the run completed after end_node.
C22_Witness ==
    /\ graph = "multiturn"
    /\ status = "COMPLETED"
    /\ \E p \in 1..Len(trace), q \in 1..Len(trace) :
           /\ p < q
           /\ \E w \in CommandsOf(trace[p]) :
                  w.node = "human_node" /\ w.res.goto = {"model"}
           /\ \E w \in CommandsOf(trace[q]) :
                  w.node = "human_node" /\ w.res.goto = {"end_node"}
           /\ trace[Len(trace)].active = {"end_node"}

\* The completed steps, up to the p-th, in which node n ran.
StepsWith(n, p) == {q \in 1..p : trace[q].active = {n}}

\* Every completed step of looping.py's graph so far is as the loop has it:
\* greeting_node sets the counter to 0, each random_number_node adds one
\* number and one to the counter, the router goes back to random_number_node
\* while counter < 5 and ends the run otherwise; the run has finished exactly
\* when the fifth iteration has been routed.
LoopingSteps ==
    /\ \A p \in 1..Len(trace) :
           LET e == trace[p]
               k == Cardinality(StepsWith("random_number_node", p))
           IN  /\ e.active = {"greeting_node"} =>
                      p = 1 /\ e.after.counter = 0 /\ e.after.numbers = <<>>
               /\ p > 1 => e.after.counter = k /\ Len(e.after.numbers) = k
               /\ e.active = {"should_continue_router"} =>
                      /\ e.after = e.before
                      /\ IF e.after.counter < LoopLimit
                         THEN e.next = {"random_number_node"}
                              /\ e.status = "RUNNING"
                         ELSE e.next = {} /\ e.status = "COMPLETED"
               /\ k <= LoopLimit
    /\ status = "COMPLETED" <=>
           /\ trace # <<>>
           /\ LastStep.active = {"should_continue_router"}
           /\ Cardinality(StepsWith("random_number_node", Len(trace))) = LoopLimit
    /\ status = "COMPLETED" =>
           /\ result.kind = "state"
           /\ result.values.counter = LoopLimit
           /\ Len(result.values.numbers) = LoopLimit
           /\ Cardinality({i \in 1..Len(log) :
                              log[i].node = "random_number_node"}) = LoopLimit
    /\ status \in {"PENDING", "RUNNING", "COMPLETED"}

\* C23: in the looping graph the router returns to the loop body while
\* counter < 5 and finishes otherwise; whatever counter the run is invoked
\* with, greeting_node sets it to 0, random_number_node executes exactly 5
\* times, 5 numbers are appended, and the run terminates with counter = 5.
C23_LoopRunsFiveTimes ==
    /\ [](graph = "looping" => LoopingSteps)
    /\ (graph = "looping" /\ status = "RUNNING") ~> (status = "COMPLETED")

\* looping.py's own invocation (counter = 6) has completed.
C23_Witness ==
    /\ graph = "looping"
    /\ status = "COMPLETED"
    /\ calls[1].input.counter = LoopLimit + 1
    /\ state.counter = LoopLimit
    /\ Len(state.numbers) = LoopLimit
    /\ Cardinality(StepsWith("random_number_node", Len(trace))) = LoopLimit

\* The node the one direct edge out of n leads to.
Successor(g, n) == CHOOSE d \in Range(Nodes(g)) \cup {END} : <<n, d>> \in DirectEdges(g)

\* The nodes met by following the direct edges from n, at most k of them.
RECURSIVE ChainFrom(_, _, _)
ChainFrom(g, n, k) ==
    IF n = END \/ k = 0 THEN <<>>
    ELSE <<n>> \o ChainFrom(g, Successor(g, n), k - 1)

Chain(g) == ChainFrom(g, CHOOSE n \in EntryNodes(g) : TRUE, Len(Nodes(g)))

\* The graph is a chain of direct edges from its entry node to the
\* termination marker, through every node.
IsChain(g) ==
    /\ ConditionalSources(g) = {}
    /\ Cardinality(EntryNodes(g)) = 1
    /\ \A n \in Range(Nodes(g)) :
           Cardinality({d \in DirectEdges(g) : d[1] = n}) = 1
    /\ Range(Chain(g)) = Range(Nodes(g))
    /\ Successor(g, Chain(g)[Len(Chain(g))]) = END

SucceededRuns(n) == {i \in 1..Len(log) : log[i].node = n /\ Succeeded(log[i])}

AsksForSearch ==
    LET input == calls[1].input.messages
    IN  /\ input # <<>>
        /\ \E i \in 1..Len(input[Len(input)]) : HasSearch(input[Len(input)][i])

\* C25: in the greet/search graph, when the invocation's last input message
\* contains "search" the search node executes after greet and the run ends
\* after search; when it does not, the run ends directly after greet and
\* search never executes.
C25_SearchWhenAsked ==
    (graph = "edge" /\ status = "COMPLETED") =>
        IF AsksForSearch
        THEN /\ Len(trace) = 2
             /\ trace[1].active = {"greet"}
             /\ trace[2].active = {"search"}
        ELSE /\ Len(trace) = 1
             /\ trace[1].active = {"greet"}
             /\ \A i \in 1..Len(log) : log[i].node # "search"

(***************************************************************************)
(* Interrupts, failures, streams and durability tiers over every graph.    *)
(***************************************************************************)
\* The nodes that raised an interrupt in completed step e.
Raisers(e) == {w.node : w \in {x \in e.writes : x.res.kind = "interrupt"}}

PreStep ==
    IF trace # <<>> THEN LastStep.after
    ELSE Merge(graph, Blank(graph), calls[1].input)

FailedFatally ==
    /\ status = "FAILED"
    /\ result.kind = "error"
    /\ result.error = "NodeExecutionError"

\* C28: when a step fails fatally (a node's failure is not retried, or its
\* retries are exhausted) the run ends FAILED and the state checkpointed for
\* the thread is the state before the failing step, with the failed node
\* pending; nothing of the failing step is merged, and an attempt that
\* failed and was retried leaves no update behind: a node's update is merged
\* at most once per step, and only for an attempt that succeeded.
C28_FailureKeepsPreStepState ==
    /\ FailedFatally =>
           /\ state = PreStep
           /\ store # <<>>
           /\ load_latest(store).values = PreStep
           /\ result.node \in load_latest(store).next
           /\ log[Len(log)].outcome = "raise"
           /\ log[Len(log)].node = result.node
           /\ \A n \in Range(Nodes(graph)) :
                  MergesOf(Len(calls), stepsDone + 1, n) = {}
    /\ \A i \in 1..Len(log) :
           LET e == log[i]
               ok == {j \in GroupOf(i) : Succeeded(log[j])}
           IN  /\ Cardinality(MergesOf(e.call, e.step, e.node)) <= Cardinality(ok)
               /\ Cardinality(ok) <= 1
    /\ \A p \in 1..Len(trace) :
           (graph = "retry02" /\ trace[p].active = {"decrement_node"}) =>
               trace[p].after.number = trace[p].before.number - 1

\* graph_patterns/retry.py: the model node failed and was retried, its
\* update was merged once, and then query_database failed fatally.
C28_Witness ==
    /\ graph = "retrydb"
    /\ FailedFatally
    /\ result.node = "query_database"
    /\ Len(trace) = 1
    /\ state = LastStep.after
    /\ Len(state.messages) = Len(calls[1].input.messages) + 1
    /\ \E i \in 1..Len(log) : log[i].node = "model" /\ log[i].outcome = "raise"
    /\ Cardinality(MergesOf(1, 1, "model")) = 1

\* The stream of the c-th call: the events it emitted, in order.
StreamOf(c) == SelectSeq(events, LAMBDA e : e.call = c)

\* The status the run of the c-th call has reached: the status the thread
\* had when the next call was made, or has now.
StatusOf(c) == IF c < Len(calls) THEN calls[c + 1].before ELSE status

Ended == {"COMPLETED", "FAILED", "INTERRUPTED"}

\* The completed steps of the c-th call that some node finished.
UpdateSteps(c) ==
    {p \in 1..Len(trace) :
        trace[p].call = c /\ \E w \in trace[p].writes : HasUpdate(w)}

StreamShape ==
    /\ \A i \in 1..Len(events) - 1 : events[i].call <= events[i + 1].call
    /\ \A c \in 1..Len(calls) :
           LET ev == StreamOf(c)
               n  == Len(ev)
           IN  IF ~calls[c].accepted
               THEN ev = <<>>
               ELSE /\ \A i \in 1..n - 1 : ev[i].kind = "step"
                    /\ StatusOf(c) \in Ended <=> (n > 0 /\ ev[n].kind # "step")
                    /\ StatusOf(c) = "FAILED" =>
                           /\ ev[n].kind = "failure"
                           /\ \A i \in 1..n : ev[i].kind # "completion"
                    /\ StatusOf(c) = "INTERRUPTED" => ev[n].kind = "__interrupt__"
                    /\ StatusOf(c) = "COMPLETED" => ev[n].kind = "completion"
                    /\ Cardinality({i \in 1..n : ev[i].kind = "step"})
                           = Cardinality(UpdateSteps(c))
    /\ (status = "COMPLETED" /\ calls[Len(calls)].accepted) =>
           LET ev == StreamOf(Len(calls))
           IN  /\ Len(ev) > 1
               /\ ev[Len(ev) - 1].values = result.values

SeqOf(S) == CHOOSE f \in [1..Cardinality(S) -> S] : Range(f) = S

\* The state a thread starts its first step with.
FirstState == Merge(graph, Blank(graph), calls[1].input)

\* The values the thread's in-memory state has gone through.
MemoryStates == {FirstState} \cup {trace[p].after : p \in 1..Len(trace)}

\* C30: the durability tier does not change what a run computes.  Under
\* "exit", "async" and "sync" alike the in-memory states are the merged input
\* followed, step by step, by the merge of that step's node results into the
\* state before it, also across an interrupt and its resume; the state
\* invoke returns is the last of them, every checkpoint holds one of them,
\* and when the run has ended the thread's latest checkpoint holds the last.
\* The tiers differ in when saves complete only: under "exit" and "sync" no
\* save is ever under way while the executor runs on, under "async" the save
\* of a step may still be under way during the steps after it.
C30_TierDoesNotChangeStates ==
    /\ \A p \in 1..Len(trace) :
           /\ trace[p].before = IF p = 1 THEN FirstState ELSE trace[p - 1].after
           /\ trace[p].after = MergeWrites(graph, trace[p].before,
                                           SeqOf(trace[p].writes), 1)
    /\ status # "PENDING" => state = PreStep
    /\ status = "COMPLETED" => result.kind = "state" /\ result.values = state
    /\ \A k \in 1..Len(store) : store[k].values \in MemoryStates
    /\ \A k \in 1..Len(inflight) : inflight[k].values \in MemoryStates
    /\ status \in Ended =>
           /\ inflight = <<>>
           /\ store # <<>>
           /\ load_latest(store).values = state
    /\ durability \in {"exit", "sync"} => inflight = <<>>
    /\ durability = "async" =>
           \A k \in 1..Len(inflight) : inflight[k].step <= stepsDone

\* Under "async" the save of the first step is still under way while a node
\* of the third step has already run.
C30_Witness ==
    /\ durability = "async"
    /\ status = "RUNNING"
    /\ inflight # <<>>
    /\ inflight[1].step = 1
    /\ stepsDone = 2
    /\ \E i \in 1..Len(log) : log[i].step = 3
    /\ state = trace[2].after
    /\ state # FirstState

\* The update node n returned in step p.
WriteOf(p, n) == (CHOOSE w \in trace[p].writes : w.node = n).res.update

\* C31: parallel.py invoked with a = 0, b = 0, sum = 0 completes with a = 2,
\* b = 3 and sum = 5, in whichever order set_a and set_b finished.
C31_ParallelSumsFive ==
    (/\ graph = "parallel"
     /\ status = "COMPLETED"
     /\ calls[1].input = [a |-> 0, b |-> 0, sum |-> 0])
    => result.values = [a |-> 2, b |-> 3, sum |-> 5]

\* C32: in parallel.py the step after aggregate_start has set_a and set_b
\* active together; each runs once, on the state that step started with;
\* aggregate runs once, in the step after it, on the state that holds both
\* merged results, and the run completes with that step.
C32_FanOutThenJoin ==
    graph = "parallel" =>
        /\ \A p \in 1..Len(trace) :
               /\ trace[p].active =
                      CASE p = 1 -> {"aggregate_start"}
                        [] p = 2 -> {"set_a", "set_b"}
                        [] p = 3 -> {"aggregate"}
                        [] OTHER -> {}
               /\ trace[p].status = IF p = 3 THEN "COMPLETED" ELSE "RUNNING"
        /\ Len(trace) <= 3
        /\ \A n \in {"set_a", "set_b", "aggregate"} :
               Cardinality({i \in 1..Len(log) : log[i].node = n}) <= 1
        /\ \A i \in 1..Len(log) :
               log[i].step = CASE log[i].node = "aggregate_start" -> 1
                               [] log[i].node = "aggregate" -> 3
                               [] OTHER -> 2
        /\ Len(trace) >= 2 =>
               /\ {w.node : w \in trace[2].writes} = {"set_a", "set_b"}
               /\ WriteOf(2, "set_a") = set_a(trace[2].before).update
               /\ WriteOf(2, "set_b") = set_b(trace[2].before).update
               /\ trace[2].after = Merge(graph,
                                         Merge(graph, trace[2].before,
                                               WriteOf(2, "set_a")),
                                         WriteOf(2, "set_b"))
        /\ Len(trace) >= 3 =>
               /\ trace[3].before = trace[2].after
               /\ WriteOf(3, "aggregate") = aggregate(trace[2].after).update
        /\ status = "COMPLETED" => Len(trace) = 3

\* set_b finished before set_a, both were merged, and aggregate has run.
C32_Witness ==
    /\ graph = "parallel"
    /\ status = "COMPLETED"
    /\ Len(trace) = 3
    /\ \E i, j \in 1..Len(log) :
           i < j /\ log[i].node = "set_b" /\ log[j].node = "set_a"
    /\ {m.node : m \in Range(merged)} =
           {"aggregate_start", "set_a", "set_b", "aggregate"}

\* The thread was started by invoke(input).
StartedWith(input) ==
    \E c \in 1..Len(calls) : calls[c].kind = "invoke" /\ calls[c].input = input

\* The resume calls the thread accepted.
AcceptedResumes ==
    {c \in 1..Len(calls) : calls[c].kind = "resume" /\ calls[c].accepted}

\* The number of times node n's update was merged on the thread.
TimesMerged(n) == Cardinality({i \in 1..Len(merged) : merged[i].node = n})

Executed(n) == \E i \in 1..Len(log) : log[i].node = n /\ log[i].outcome # "interrupt"

\* C33: interrupt.py started with value '' halts with 'a' in the state and in
\* the stored checkpoint, node_b's update not merged; the resume with 'C'
\* completes with 'abc' and the resume with another value with 'abd';
\* node_a's update is merged once over the interrupt and the resume, and
\* node_c and node_d do not both execute on the thread.
C33_InterruptThenBranch ==
    (graph = "interrupt" /\ StartedWith([value |-> <<>>])) =>
        /\ status = "INTERRUPTED" =>
               /\ AcceptedResumes = {}
               /\ state = [value |-> <<"a">>]
               /\ store # <<>> /\ load_latest(store).values = [value |-> <<"a">>]
               /\ TimesMerged("node_a") = 1
               /\ TimesMerged("node_b") = 0
        /\ status = "COMPLETED" =>
               /\ Cardinality(AcceptedResumes) = 1
               /\ \A c \in AcceptedResumes :
                      LET last == IF calls[c].value = "C" THEN "c" ELSE "d"
                      IN  /\ state = [value |-> <<"a", "b", last>>]
                          /\ calls[Len(calls)].accepted =>
                                 result = [kind |-> "state", values |-> state]
                          /\ store # <<>> /\ load_latest(store).values = state
               /\ TimesMerged("node_a") = 1
               /\ TimesMerged("node_b") = 1
        /\ TimesMerged("node_a") <= 1
        /\ ~(Executed("node_c") /\ Executed("node_d"))
        /\ AcceptedResumes = {} => ~Executed("node_b")

\* The thread was interrupted with 'a', resumed with 'D' and completed with
\* 'abd'.
C33_Witness ==
    /\ graph = "interrupt"
    /\ StartedWith([value |-> <<>>])
    /\ status = "COMPLETED"
    /\ trace[2].status = "INTERRUPTED"
    /\ trace[2].after = [value |-> <<"a">>]
    /\ \E c \in AcceptedResumes : calls[c].value = "D"
    /\ state = [value |-> <<"a", "b", "d">>]
    /\ Executed("node_d")

\* The number the thread was started with.
StartNumber == calls[1].input.number

\* The attempts of node n that returned.
Returns(n) == {i \in 1..Len(log) : log[i].node = n /\ log[i].outcome # "raise"}

\* The inspection of a countdown that is running or has ended.
CountdownShape ==
    calls # <<>> =>
        /\ status # "FAILED"
        /\ Cardinality({i \in 1..Len(log) : log[i].outcome = "raise"}) <= 1
        /\ \A i \in 1..Len(log) :
               log[i].outcome = "raise" =>
                   /\ log[i].node = "decrement_node"
                   /\ log[i].attempt = 1
                   /\ status = "RUNNING" \/ \E j \in Returns("decrement_node") :
                                               log[j].step = log[i].step
        /\ state.number = StartNumber - Cardinality(Decrements)
        /\ StartNumber >= 0 =>
               /\ state.number >= 0
               /\ status = "COMPLETED" =>
                      /\ state.number = 0
                      /\ result = [kind |-> "state", values |-> [number |-> 0]]
                      /\ Cardinality(Decrements) = StartNumber
                      /\ Cardinality(Returns("decrement_node")) = StartNumber
                      /\ Cardinality(Returns("print_node")) = StartNumber + 1
                      /\ (StartNumber > 0) = (\E i \in 1..Len(log) :
                                                  log[i].outcome = "raise")
        /\ StartNumber < 0 =>
               /\ state.number < 0
               /\ status = "RUNNING"
               /\ \A p \in 1..Len(trace) :
                      /\ END \notin trace[p].next
                      /\ trace[p].next # {}
                      /\ "print_node" \in trace[p].active =>
                             /\ check_node(trace[p].after) = "loop"
                             /\ trace[p].next = {"decrement_node"}

\* C34: 02-graph-patterns/retry.py started with a number n >= 0 ends
\* COMPLETED with number 0, after n merged decrements and n + 1 runs of
\* print_node, the one simulated failure of decrement_node followed by the
\* retry that succeeds; started with n < 0 its routing function answers
\* 'loop' after every print_node and the run does not reach END.
C34_CountdownEnds ==
    /\ []CountdownShape
    /\ (status = "RUNNING" /\ StartNumber >= 0) ~> (status = "COMPLETED")

\* A run from 2 has completed: two decrements, three prints, one failure.
C34_Witness ==
    /\ calls # <<>>
    /\ StartNumber = 2
    /\ status = "COMPLETED"
    /\ state.number = 0
    /\ Cardinality(Decrements) = 2
    /\ Cardinality(Returns("print_node")) = 3
    /\ \E i \in 1..Len(log) : log[i].outcome = "raise"

\* The messages are different messages: each has an id of its own.
AllDistinct(msgs) ==
    /\ \A i \in 1..Len(msgs) : msgs[i].id # NoId
    /\ \A i, j \in 1..Len(msgs) : msgs[i].id = msgs[j].id => i = j

\* C35: on a thread of a chat graph with a checkpointer, the message list
\* after k invocations of one new user message each is the k user messages
\* in the order they were passed, each followed by one assistant response:
\* 2k messages, no message twice.
C35_ChatGrowsByTwo ==
    (graph \in ChatGraphs /\ status = "COMPLETED") =>
        LET k == Len(calls)
            msgs == state.messages
        IN  /\ result = [kind |-> "state", values |-> state]
            /\ Len(msgs) = 2 * k
            /\ AllDistinct(msgs)
            /\ \A j \in 1..k :
                   /\ msgs[2 * j - 1].content = calls[j].input.messages[1].content
                   /\ msgs[2 * j] = [AIMessage("response") EXCEPT
                                         !.id = msgs[2 * j].id]

\* The tool calls the tool node of step p was given: those of the last
\* message of the state the step started with.
CallsAt(p) == trace[p].before.messages[Len(trace[p].before.messages)].tool_calls

\* The steps in which custom_tool_node.py's tool_node ran.
ToolSteps ==
    {p \in 1..Len(trace) :
        graph = "custom_tool_node" /\ "tool_node" \in trace[p].active}

\* C37: custom_tool_node.py's tool_node returns one ToolMessage per tool call
\* of the last message, in the order of the calls, each with the id and the
\* tool name of its call; for a tool that is not registered, and for one that
\* raises, the message holds an error text, the node does not raise, and the
\* calls after it get their messages too.
C37_OneToolMessagePerCall ==
    /\ \A p \in ToolSteps :
           LET made == WriteOf(p, "tool_node").messages
           IN  /\ Len(made) = Len(CallsAt(p))
               /\ \A i \in 1..Len(made) :
                      /\ made[i].tool_call_id = CallsAt(p)[i].id
                      /\ made[i].name = CallsAt(p)[i].name
                      /\ (made[i].name \notin tools_dict) =
                             (made[i].content = "Tool '<name>' does not exist.")
                      /\ made[i].content \in
                             {"Tool '<name>' does not exist.",
                              "Error executing tool '<name>': <e>", "<result>"}
               /\ Len(trace[p].after.messages) =
                      Len(trace[p].before.messages) + Len(made)
    /\ graph = "custom_tool_node" =>
           \A i \in 1..Len(log) :
               log[i].node = "tool_node" => log[i].outcome = "update"

\* The response asked for an unregistered tool and then a registered one
\* whose invocation raised: both calls have their message.
C37_Witness ==
    \E p \in ToolSteps :
        /\ Len(CallsAt(p)) = 2
        /\ CallsAt(p)[1].name = "search"
        /\ CallsAt(p)[2].name = "add"
        /\ WriteOf(p, "tool_node").messages[1].content =
               "Tool '<name>' does not exist."
        /\ WriteOf(p, "tool_node").messages[2].content =
               "Error executing tool '<name>': <e>"
        /\ WriteOf(p, "tool_node").messages[2].tool_call_id = 2

\* The last message of the state step p ended with asks for a tool.
AsksForTool(p) ==
    HasToolCalls(trace[p].after.messages[Len(trace[p].after.messages)])

IsLlmStep(p) == trace[p].active = {"llm_processor_node"}

IsToolStep(p) == trace[p].active \in {{"tool_node"}, {"tool_nodes"}}

\* C38: in the graphs of a chat model and a tool node, every step runs one
\* of the two; the tool node runs only in the step right after a step of the
\* chat model whose last message asks for a tool, and such a step leads
\* nowhere else; a step of the tool node leads to the chat model; and the run
\* completes only with a step of the chat model whose last message asks for
\* no tool.
C38_ToolStepsFollowRequests ==
    graph \in ToolAgents =>
        /\ status # "FAILED"
        /\ \A p \in 1..Len(trace) :
               /\ IsLlmStep(p) \/ IsToolStep(p)
               /\ p = 1 => IsLlmStep(p)
               /\ IsToolStep(p) =>
                      /\ p > 1 /\ IsLlmStep(p - 1) /\ AsksForTool(p - 1)
                      /\ trace[p].status = "RUNNING"
                      /\ trace[p].next = {"llm_processor_node"}
               /\ (IsLlmStep(p) /\ AsksForTool(p)) =>
                      /\ trace[p].status = "RUNNING"
                      /\ trace[p].next \in {{"tool_node"}, {"tool_nodes"}}
               /\ trace[p].status = "COMPLETED" =>
                      /\ IsLlmStep(p) /\ ~AsksForTool(p)
                      /\ p = Len(trace)
               /\ p < Len(trace) => trace[p + 1].active = trace[p].next
        /\ status = "COMPLETED" =>
               /\ trace # <<>>
               /\ trace[Len(trace)].status = "COMPLETED"

\* A run of build_in_tool_node.py's graph has completed after the chat
\* model, the tool node and the chat model again.
C38_Witness ==
    /\ graph = "build_in_tool_node"
    /\ status = "COMPLETED"
    /\ Len(trace) = 3
    /\ IsLlmStep(1) /\ AsksForTool(1)
    /\ IsToolStep(2)
    /\ IsLlmStep(3) /\ ~AsksForTool(3)

\* The transitions between the nodes of supervisor_multiagent.py's graph.
Handoffs(n) ==
    CASE n = "supervisor" -> {"enhancer", "researcher", "coder"}
      [] n = "enhancer"   -> {"supervisor"}
      [] n = "researcher" -> {"validator"}
      [] n = "coder"      -> {"validator"}
      [] n = "validator"  -> {"supervisor", END}

\* The node that ran in step p of a run whose steps run one node each.
NodeOf(p) == CHOOSE n \in trace[p].active : TRUE

\* C39: in supervisor_multiagent.py's graph every step has exactly one
\* active node, the first is supervisor, and each step hands over along
\* supervisor -> enhancer | researcher | coder, enhancer -> supervisor,
\* researcher -> validator, coder -> validator, validator -> supervisor | END;
\* so a run completes only with a validator step that went to END, and a
\* step of researcher or coder is followed by a step of validator.
C39_SupervisorHandoffs ==
    graph = "supervisor" =>
        /\ status = "RUNNING" => Cardinality(active) = 1
        /\ status = "COMPLETED" =>
               /\ trace # <<>>
               /\ trace[Len(trace)].status = "COMPLETED"
        /\ \A p \in 1..Len(trace) :
               /\ Cardinality(trace[p].active) = 1
               /\ p = 1 => NodeOf(p) = "supervisor"
               /\ \A w \in trace[p].writes :
                      /\ w.node = NodeOf(p)
                      /\ w.res.kind = "command"
                      /\ Cardinality(w.res.goto) = 1
                      /\ w.res.goto \subseteq Handoffs(NodeOf(p))
                      /\ trace[p].next = w.res.goto \ {END}
               /\ trace[p].status = "RUNNING" =>
                      /\ Cardinality(trace[p].next) = 1
                      /\ trace[p].next \subseteq Handoffs(NodeOf(p)) \ {END}
               /\ trace[p].status = "COMPLETED" =>
                      /\ NodeOf(p) = "validator"
                      /\ \E w \in trace[p].writes : w.res.goto = {END}
                      /\ p = Len(trace)
               /\ NodeOf(p) \in {"researcher", "coder"} =>
                      /\ trace[p].status = "RUNNING"
                      /\ trace[p].next = {"validator"}
               /\ p < Len(trace) => trace[p + 1].active = trace[p].next

\* A run went supervisor, enhancer, supervisor, researcher, validator,
\* supervisor, coder, validator and completed there.
C39_Witness ==
    /\ graph = "supervisor"
    /\ status = "COMPLETED"
    /\ Len(trace) = 8
    /\ [p \in 1..8 |-> NodeOf(p)] =
           <<"supervisor", "enhancer", "supervisor", "researcher",
             "validator", "supervisor", "coder", "validator">>

\* The events stored in namespace ns.
EventsIn(ns) ==
    {i \in 1..Len(items) :
        items[i].namespace = ns /\ items[i].value.type = "event"}

ItemsIn(ns) == {i \in 1..Len(items) : items[i].namespace = ns}

\* What a recall in namespace ns gives now.
RecallNow(ns) ==
    IF script = "inmemorystore"
    THEN recall_memories(items, ns, 3)
    ELSE recall_from_store(items, ns, 3)

\* C36: every stored event passes the filter of the recall, and once
\* memory_node has run in a namespace that holds fewer than three items, a
\* recall there gives the profile's snippet and a "Past event" snippet for
\* each stored event; memory_node's own recall, made after its write, gives
\* them too.
C36_RecallReturnsEvents ==
    \A r \in Range(remembered) :
        /\ \A i \in EventsIn(r.ns) : Satisfies(items[i].value, RecallFilter)
        /\ Cardinality(ItemsIn(r.ns)) < 3 =>
               /\ \E j \in DOMAIN RecallNow(r.ns) :
                      RecallNow(r.ns)[j].kind = "Profile prefs"
               /\ \A i \in EventsIn(r.ns) :
                      EventSnippet(items[i].value) \in Range(RecallNow(r.ns))
               /\ remembered[Len(remembered)].ns = r.ns =>
                      \A i \in EventsIn(r.ns) :
                          EventSnippet(items[i].value) \in Range(memory_context)

====
